---------------------------- MODULE Spec2Model ----------------------------
(***************************************************************************)
(* SciDocx2Web: the post-conversion HTML transformation pipeline of        *)
(* SciDocx2WebConversion.py, driven in the order in which                  *)
(* SciDocx2WebUI.convertAndExport calls its stages.                        *)
(*                                                                         *)
(* Text is a sequence of one-character strings, so that len(), slicing,    *)
(* str(), int(), str.isdigit() and the regular expressions of the source   *)
(* are computed and not assumed.  The document is an lxml tree: a heap of  *)
(* elements (tag, ordered attributes, text, tail, ordered children); an    *)
(* element that is appended or inserted somewhere is moved there together  *)
(* with its tail, and an element that is removed takes its tail with it.   *)
(***************************************************************************)
EXTENDS Integers, Sequences, FiniteSets, TLC

(***************************************************************************)
(* Bounds of the model.                                                    *)
(***************************************************************************)
\* the longest body a document has, in blocks (paragraphs, headings, ...)
MaxBlocks == 2

\* the combinations of style entries: at most this many entries differ from
\* "all filled" or from "all empty"
MaxDeviation == 1

(***************************************************************************)
(* Python values: None, str, int.                                          *)
(***************************************************************************)
\* Python's None where a str is expected (lxml's .text / .tail of nothing)
None == <<"None">>

DecimalChars == <<"0","1","2","3","4","5","6","7","8","9">>

\* U+00B2 SUPERSCRIPT TWO: str.isdigit() accepts it, int() does not
SuperscriptTwo == "sup2"

\* U+2191 UPWARDS ARROW, the glyph of mammoth's back-reference link
UpArrow == "^"

DigitValue(c) == (CHOOSE i \in 1..10 : DecimalChars[i] = c) - 1

\* str.isdigit(): non-empty and every character has the Unicode property
\* Numeric_Type=Digit or Decimal
isdigit(s) ==
    /\ Len(s) > 0
    /\ \A i \in 1..Len(s) : (\E d \in 1..10 : DecimalChars[d] = s[i]) \/ s[i] = SuperscriptTwo

\* int(s) raises ValueError unless s is a decimal literal
IntRaises(s) == Len(s) = 0 \/ \E i \in 1..Len(s) : ~(\E d \in 1..10 : DecimalChars[d] = s[i])

RECURSIVE int(_)
int(s) ==
    IF Len(s) = 0 THEN 0
    ELSE int(SubSeq(s, 1, Len(s) - 1)) * 10 + DigitValue(s[Len(s)])

RECURSIVE str(_)
str(i) ==
    IF i < 0 THEN <<"-">> \o str(0 - i)
    ELSE IF i < 10 THEN <<DecimalChars[i + 1]>>
    ELSE str(i \div 10) \o <<DecimalChars[(i % 10) + 1]>>

Min(S) == CHOOSE x \in S : \A y \in S : x <= y

\* s.find(pat, from): the first position >= from at which pat occurs, 0 if none
Find(s, pat, from) ==
    LET I == {i \in from..(Len(s) - Len(pat) + 1) :
                 SubSeq(s, i, i + Len(pat) - 1) = pat}
    IN  IF I = {} THEN 0 ELSE Min(I)

\* XPath contains(@attr, pat) / Python's "pat in s"
Contains(s, pat) == Find(s, pat, 1) # 0

\* re.sub of a literal pattern: every non-overlapping occurrence, left to right
RECURSIVE ReplaceAll(_, _, _)
ReplaceAll(s, pat, rep) ==
    LET i == Find(s, pat, 1)
    IN  IF i = 0 THEN s
        ELSE SubSeq(s, 1, i - 1) \o rep
             \o ReplaceAll(SubSeq(s, i + Len(pat), Len(s)), pat, rep)

RECURSIVE Concat(_)
Concat(ss) == IF Len(ss) = 0 THEN <<>> ELSE Head(ss) \o Concat(Tail(ss))

Range(f) == {f[i] : i \in DOMAIN f}

(***************************************************************************)
(* Markup vocabulary (tags, attribute names, fixed attribute values).      *)
(***************************************************************************)
\* the element names that the stages create or look for; comment stands for
\* etree.Comment, which lxml gives a function as its tag, never a name
Tags ==
    [ a |-> <<"a">>,
      p |-> <<"p">>,
      sup |-> <<"s","u","p">>,
      sub |-> <<"s","u","b">>,
      span |-> <<"s","p","a","n">>,
      ol |-> <<"o","l">>,
      li |-> <<"l","i">>,
      div |-> <<"d","i","v">>,
      body |-> <<"b","o","d","y">>,
      html |-> <<"h","t","m","l">>,
      head |-> <<"h","e","a","d">>,
      title |-> <<"t","i","t","l","e">>,
      meta |-> <<"m","e","t","a">>,
      h1 |-> <<"h","1">>,
      h2 |-> <<"h","2">>,
      h3 |-> <<"h","3">>,
      blockquote |-> <<"b","l","o","c","k","q","u","o","t","e">>,
      nav |-> <<"n","a","v">>,
      button |-> <<"b","u","t","t","o","n">>,
      br |-> <<"b","r">>,
      hr |-> <<"h","r">>,
      img |-> <<"i","m","g">>,
      iframe |-> <<"i","f","r","a","m","e">>,
      audio |-> <<"a","u","d","i","o">>,
      source |-> <<"s","o","u","r","c","e">>,
      table |-> <<"t","a","b","l","e">>,
      tr |-> <<"t","r">>,
      td |-> <<"t","d">>,
      caption |-> <<"c","a","p","t","i","o","n">>,
      code |-> <<"c","o","d","e">>,
      style |-> <<"s","t","y","l","e">>,
      script |-> <<"s","c","r","i","p","t">>,
      comment |-> <<"!--">> ]

\* the attribute names that the stages set or test
Attrs ==
    [ id |-> <<"i","d">>,
      href |-> <<"h","r","e","f">>,
      class |-> <<"c","l","a","s","s">>,
      role |-> <<"r","o","l","e">>,
      describedby |-> <<"a","r","i","a","-","d","e","s","c","r","i","b","e","d","b","y">>,
      label |-> <<"l","a","b","e","l">>,
      charset |-> <<"c","h","a","r","s","e","t">>,
      cite |-> <<"c","i","t","e">>,
      src |-> <<"s","r","c">>,
      width |-> <<"w","i","d","t","h">>,
      height |-> <<"h","e","i","g","h","t">>,
      controls |-> <<"c","o","n","t","r","o","l","s">>,
      aria_label |-> <<"a","r","i","a","-","l","a","b","e","l">> ]

\* the string literals of the stages
Lits ==
    [ footnote |-> <<"f","o","o","t","n","o","t","e","-">>,
      footnote_ref |-> <<"f","o","o","t","n","o","t","e","-","r","e","f">>,
      tooltip |-> <<"t","o","o","l","t","i","p">>,
      tooltippop |-> <<"t","o","o","l","t","i","p","p","o","p">>,
      gridContainer |-> <<"g","r","i","d","C","o","n","t","a","i","n","e","r">>,
      mainGrid |-> <<"m","a","i","n","G","r","i","d">>,
      navGrid |-> <<"n","a","v","G","r","i","d">>,
      pagenumber |-> <<"p","a","g","e","n","u","m","b","e","r">>,
      NEW_PAGE |-> <<"N","E","W","_","P","A","G","E","_","B","E","G","I","N","N","I","N","G","!">>,
      UTF8 |-> <<"U","T","F","-","8">>,
      heading |-> <<"h","e","a","d","i","n","g">>,
      Toc |-> <<"_","T","o","c">>,
      underscore_heading |-> <<"_","h","e","a","d","i","n","g">>,
      Hlk |-> <<"_","H","l","k">>,
      wbr |-> <<"<","w","b","r",">">>,
      ellipsis |-> <<"[",".",".",".","]">>,
      paragraph |-> <<"p","a","r","a","g","r","a","p","h">>,
      Navigation |-> <<"N","a","v","i","g","a","t","i","o","n">>,
      label_text |-> <<"L","i","n","k"," ","t","o"," ","f","o","o","t","n","o","t","e"," ","l","i","s","t"," ","a","t"," ","t","h","e"," ","b","o","t","t","o","m"," ","o","f"," ","t","h","e"," ","d","o","c","u","m","e","n","t",".">>,
      open_p |-> <<"<","p",">">>,
      backlink |-> <<"<","a"," ","h","r","e","f","=","\"","#","f","o","o","t","n","o","t","e","-","r","e","f">>,
      slash_wbr |-> <<"/","<","w","b","r",">">>,
      open_a |-> <<"<","a">>,
      close_a |-> <<"<","/","a",">">>,
      bottom_comment |-> <<" ","B","o","t","t","o","m"," ","f","o","o","t","n","o","t","e","s"," ">>,
      back_label |-> <<"L","i","n","k"," ","b","a","c","k"," ","t","o"," ","f","o","o","t","n","o","t","e"," ","i","n"," ","m","a","i","n"," ","t","e","x","t",".">>,
      gt |-> <<">">>,
      hash_heading |-> <<"#","h","e","a","d","i","n","g">>,
      nav_comment |-> <<" ","N","a","v","i","g","a","t","i","o","n"," ">>,
      insertimage |-> <<"i","n","s","e","r","t","i","m","a","g","e">>,
      insertvideo |-> <<"i","n","s","e","r","t","v","i","d","e","o">>,
      insertaudio |-> <<"i","n","s","e","r","t","a","u","d","i","o">>,
      mediacaption |-> <<"m","e","d","i","a","c","a","p","t","i","o","n">>,
      ignorePNum |-> <<"i","g","n","o","r","e","P","N","u","m">>,
      bibliography |-> <<"b","i","b","l","i","o","g","r","a","p","h","y">>,
      True |-> <<"T","r","u","e">>,
      insert_media |-> <<" ","I","n","s","e","r","t"," ","M","e","d","i","a"," ">>,
      doctype |-> <<"<","!","D","O","C","T","Y","P","E"," ","h","t","m","l",">","\n">>,
      open_code |-> <<"<","c","o","d","e",">">>,
      close_code |-> <<"<","/","c","o","d","e",">">>,
      rule_open |-> <<"p","[","s","t","y","l","e","-","n","a","m","e","=","'">>,
      rule_arrow |-> <<"'","]"," ","=",">"," ">>,
      fresh |-> <<":","f","r","e","s","h">>,
      to_h1 |-> <<"h","1">>,
      to_h2 |-> <<"h","2">>,
      to_h3 |-> <<"h","3">>,
      to_img |-> <<"i","m","g",".","i","n","s","e","r","t","i","m","a","g","e">>,
      to_iframe |-> <<"i","f","r","a","m","e",".","i","n","s","e","r","t","v","i","d","e","o">>,
      to_audio |-> <<"a","u","d","i","o",".","i","n","s","e","r","t","a","u","d","i","o">>,
      to_media |-> <<"p",".","m","e","d","i","a","c","a","p","t","i","o","n">>,
      to_blockquote |-> <<"b","l","o","c","k","q","u","o","t","e">>,
      to_caption |-> <<"c","a","p","t","i","o","n">>,
      to_bibliography |-> <<"p",".","b","i","b","l","i","o","g","r","a","p","h","y">>,
      to_ignorePNum |-> <<"p",".","i","g","n","o","r","e","P","N","u","m">>,
      to_code |-> <<"c","o","d","e">>,
      page_markup |-> <<"<","s","u","b"," ","c","l","a","s","s","=","\"","p","a","g","e","n","u","m","b","e","r","\"",">","N","E","W","_","P","A","G","E","_","B","E","G","I","N","N","I","N","G","!","<","/","s","u","b",">">> ]

(***************************************************************************)
(* lxml.etree: the element heap.  A tree value t is                        *)
(* [nodes |-> sequence of elements, root |-> index]; an element's identity *)
(* is its index.  Elements outside every parent (etree.Element results     *)
(* not yet attached) live in the same heap.                                *)
(***************************************************************************)
NewNode(tag, attrib, text, tail) ==
    [tag |-> tag, attrib |-> attrib, text |-> text, tail |-> tail, kids |-> <<>>]

\* etree.Element(tag): the new element's index is Len(t.nodes) + 1
Element(t, tag, attrib, text, tail) ==
    [t EXCEPT !.nodes = Append(@, NewNode(tag, attrib, text, tail))]

Last(t) == Len(t.nodes)

\* TLC evaluates operator arguments on demand; a loop that asks for the size
\* of the heap it was handed evaluates each pass before the next one starts
Evaluated(t) == Len(t.nodes) >= 0

Kids(t, n) == t.nodes[n].kids

\* element.getparent(): 0 stands for None
getparent(t, n) ==
    IF \E p \in 1..Len(t.nodes) : n \in Range(Kids(t, p))
    THEN CHOOSE p \in 1..Len(t.nodes) : n \in Range(Kids(t, p))
    ELSE 0

Without(q, x) == SelectSeq(q, LAMBDA y : y # x)

\* unlink an element from its parent; its tail stays with the element
Detach(t, n) ==
    LET p == getparent(t, n)
    IN  IF p = 0 THEN t
        ELSE [t EXCEPT !.nodes[p].kids = Without(@, n)]

\* parent.insert(index, child), counting from 0; a child that is already in
\* a tree is moved
insert(t, p, index, c) ==
    LET d == Detach(t, c)
        k == Kids(d, p)
        i == IF index > Len(k) THEN Len(k) ELSE index
    IN  [d EXCEPT !.nodes[p].kids =
            SubSeq(k, 1, i) \o <<c>> \o SubSeq(k, i + 1, Len(k))]

\* parent.append(child)
append(t, p, c) ==
    LET d == Detach(t, c)
    IN  [d EXCEPT !.nodes[p].kids = Append(@, c)]

\* parent.extend(other): every child of other, in order, is appended (moved)
extend(t, p, other) ==
    LET moved == Kids(t, other)
    IN  [t EXCEPT !.nodes[other].kids = <<>>,
                  !.nodes[p].kids = @ \o moved]

\* parent.remove(child): the child leaves the tree and takes its tail along
remove(t, p, c) == [t EXCEPT !.nodes[p].kids = Without(@, c)]

\* element[attr] = value: a new attribute goes last, an old one keeps its place
SetAttr(t, n, name, value) ==
    LET a == t.nodes[n].attrib
    IN  IF \E i \in 1..Len(a) : a[i].k = name
        THEN [t EXCEPT !.nodes[n].attrib =
                 [i \in 1..Len(a) |->
                     IF a[i].k = name THEN [k |-> name, v |-> value] ELSE a[i]]]
        ELSE [t EXCEPT !.nodes[n].attrib = Append(@, [k |-> name, v |-> value])]

HasAttr(t, n, name) == \E i \in 1..Len(t.nodes[n].attrib) : t.nodes[n].attrib[i].k = name

\* element.get(attr): None when the attribute is absent
GetAttr(t, n, name) ==
    LET a == t.nodes[n].attrib
    IN  IF HasAttr(t, n, name)
        THEN a[CHOOSE i \in 1..Len(a) : a[i].k = name].v
        ELSE None

SetText(t, n, s) == [t EXCEPT !.nodes[n].text = s]

\* the subtree of n in document order (n first)
RECURSIVE Subtree(_, _)
Subtree(t, n) ==
    <<n>> \o Concat([i \in 1..Len(Kids(t, n)) |-> Subtree(t, Kids(t, n)[i])])

\* the descendants of n in document order
Descendants(t, n) == Tail(Subtree(t, n))

\* every element of the document of bodyxml, in document order
AllNodes(t) == Subtree(t, t.root)

IsTag(t, n, tag) == t.nodes[n].tag = tag

\* XPath //tag and .//tag evaluated on the root element
ByTag(t, tag) == SelectSeq(AllNodes(t), LAMBDA n : IsTag(t, n, tag))

(***************************************************************************)
(* etree.tostring(element).decode('utf-8'): the default encoding is ASCII, *)
(* so a non-ASCII character is written as a character reference; the       *)
(* element's tail is part of the result.                                   *)
(***************************************************************************)
EscapeChar(c, inAttribute) ==
    IF c = "&" THEN <<"&","a","m","p",";">>
    ELSE IF c = "<" THEN <<"&","l","t",";">>
    ELSE IF c = ">" THEN <<"&","g","t",";">>
    ELSE IF c = "\"" /\ inAttribute THEN <<"&","q","u","o","t",";">>
    ELSE IF c = UpArrow THEN <<"&","#","8","5","9","3",";">>
    ELSE <<c>>

Escape(s, inAttribute) ==
    IF s = None THEN <<>>
    ELSE Concat([i \in 1..Len(s) |-> EscapeChar(s[i], inAttribute)])

AttribText(a) ==
    Concat([i \in 1..Len(a) |->
        <<" ">> \o a[i].k \o <<"=","\"">> \o Escape(a[i].v, TRUE) \o <<"\"">>])

RECURSIVE tostring(_, _)
tostring(t, n) ==
    LET e == t.nodes[n]
        inner == Escape(e.text, FALSE)
                 \o Concat([i \in 1..Len(e.kids) |-> tostring(t, e.kids[i])])
    IN  IF e.tag = Tags.comment
        THEN <<"<","!","-","-">> \o (IF e.text = None THEN <<>> ELSE e.text)
             \o <<"-","-",">">> \o Escape(e.tail, FALSE)
        ELSE <<"<">> \o e.tag \o AttribText(e.attrib)
             \o (IF e.text = None /\ Len(e.kids) = 0
                 THEN <<"/",">">>
                 ELSE <<">">> \o inner \o <<"<","/">> \o e.tag \o <<">">>)
             \o Escape(e.tail, FALSE)

\* ''.join(element.itertext()): the text of the subtree in document order,
\* the tails of the descendants included, the element's own tail not
RECURSIVE itertext(_, _)
itertext(t, n) ==
    LET e == t.nodes[n]
        T(s) == IF s = None THEN <<>> ELSE s
    IN  T(e.text)
        \o Concat([i \in 1..Len(e.kids) |->
              itertext(t, e.kids[i]) \o T(t.nodes[e.kids[i]].tail)])

(***************************************************************************)
(* The input: what mammoth.convert_to_html returns for a document, given   *)
(* as the sequence of its blocks and the number its footnote ids start at. *)
(* The k-th footnote reference shows "[k]" (mammoth counts references from *)
(* 1) while its ids carry the note id of the DOCX file.                    *)
(***************************************************************************)
Attr(k, v) == [k |-> k, v |-> v]

\* a new element as the last child of parent
SubElement(t, parent, tag, attrib, text, tail) ==
    LET u == Element(t, tag, attrib, text, tail)
    IN  append(u, parent, Last(u))

MarkerBlocks == {"pfn", "pln", "pf2", "pl2", "bq"}

\* the text of the k-th footnote
NoteText(k) == <<"n">> \o str(k) \o <<"/","z">>

\* <sup><a href="#footnote-N" id="footnote-ref-N">[k]</a></sup>
AddMarker(t, parent, k, start, tail) ==
    LET N  == str(start + k - 1)
        t1 == SubElement(t, parent, Tags.sup, <<>>, None, tail)
    IN  SubElement(t1, Last(t1), Tags.a,
            <<Attr(Attrs.href, <<"#">> \o Lits.footnote \o N),
              Attr(Attrs.id, Lits.footnote_ref \o <<"-">> \o N)>>,
            <<"[">> \o str(k) \o <<"]">>, None)

AddBlock(t, grid, kind, k, start) ==
    CASE kind = "p" ->
            SubElement(t, grid, Tags.p, <<>>, <<"a","/","b">>, None)
      [] kind \in {"pfn", "pln", "pf2", "pl2"} ->
            LET t1 == SubElement(t, grid, Tags.p, <<>>, <<"c">>, None)
            IN  AddMarker(t1, Last(t1), k, start, <<"d">>)
      [] kind = "bq" ->
            LET t1 == SubElement(t, grid, Tags.blockquote, <<>>, <<"q">>, None)
            IN  AddMarker(t1, Last(t1), k, start, None)
      [] kind = "bqn" ->
            SubElement(t, grid, Tags.blockquote, <<>>, <<"r">>, None)
      [] kind = "h1" ->
            LET t1 == SubElement(t, grid, Tags.h1, <<>>, None, None)
            IN  SubElement(t1, Last(t1), Tags.a,
                    <<Attr(Attrs.id, Lits.Toc \o <<"1">>)>>, None, <<"T">>)
      [] kind = "h2" ->
            SubElement(t, grid, Tags.h2, <<>>, <<"U">>, None)
      [] kind = "ht" ->
            LET t1 == SubElement(t, grid, Tags.h2, <<>>, <<"W">>, None)
            IN  SubElement(t1, Last(t1), Tags.a,
                    <<Attr(Attrs.id, Lits.underscore_heading \o <<"2">>)>>, None, <<"X">>)
      [] kind = "hk" ->
            LET t1 == SubElement(t, grid, Tags.h3, <<>>, None, None)
                h  == Last(t1)
                t2 == SubElement(t1, h, Tags.a,
                          <<Attr(Attrs.id, Lits.Hlk \o <<"3">>)>>, None, <<"Y">>)
            IN  SubElement(t2, h, Tags.a,
                    <<Attr(Attrs.href, <<"u","/","v">>)>>, <<"Z">>, <<"A">>)
      [] kind = "h3" ->
            SubElement(t, grid, Tags.h3, <<>>, <<"V">>, None)
      [] kind = "pb" ->
            LET t1 == SubElement(t, grid, Tags.p, <<>>, <<"e">>, None)
            IN  SubElement(t1, Last(t1), Tags.sub,
                    <<Attr(Attrs.class, Lits.pagenumber)>>, Lits.NEW_PAGE, <<"f">>)
      [] kind = "pmc" ->
            SubElement(t, grid, Tags.p, <<Attr(Attrs.class, Lits.mediacaption)>>,
                <<"g">>, None)
      [] kind = "pig" ->
            SubElement(t, grid, Tags.p, <<Attr(Attrs.class, Lits.ignorePNum)>>,
                <<"i">>, None)
      [] kind = "pbib" ->
            SubElement(t, grid, Tags.p, <<Attr(Attrs.class, Lits.bibliography)>>,
                <<"j">>, None)
      [] kind = "img" ->
            SubElement(t, grid, Tags.img, <<Attr(Attrs.class, Lits.insertimage)>>,
                <<"k","/","l">>, None)
      [] kind = "vid" ->
            SubElement(t, grid, Tags.iframe, <<Attr(Attrs.class, Lits.insertvideo)>>,
                <<"m","/","o">>, None)
      [] kind = "aud" ->
            SubElement(t, grid, Tags.audio, <<Attr(Attrs.class, Lits.insertaudio)>>,
                <<"w","/","x">>, None)
      [] kind = "tbl" ->
            LET t1 == SubElement(t, grid, Tags.table, <<>>, None, None)
                t2 == SubElement(t1, Last(t1), Tags.tr, <<>>, None, None)
                t3 == SubElement(t2, Last(t2), Tags.td, <<>>, None, None)
            IN  SubElement(t3, Last(t3), Tags.p, <<>>, <<"y">>, None)
      [] kind = "cap" ->
            SubElement(t, grid, Tags.caption, <<>>, <<"C">>, None)
      [] kind = "code" ->
            SubElement(t, grid, Tags.code, <<>>, <<"<","b",">","&">>, None)
      [] kind = "codex" ->
            SubElement(t, grid, Tags.code, <<>>,
                <<"D">> \o Lits.close_code \o <<"<","b",">">>, None)

\* the number of footnote references among the first i blocks
MarkersUpTo(blocks, i) == Cardinality({j \in 1..i : blocks[j] \in MarkerBlocks})

RECURSIVE AddBlocks(_, _, _, _, _)
AddBlocks(t, grid, blocks, i, start) ==
    IF i > Len(blocks) \/ ~Evaluated(t) THEN t
    ELSE AddBlocks(AddBlock(t, grid, blocks[i], MarkersUpTo(blocks, i), start),
                   grid, blocks, i + 1, start)

\* <li id="footnote-N"><p>text <a href="#footnote-ref-N">^</a></p></li>;
\* the footnote of a "pln" block holds a hyperlink, that of a "pl2" block
\* two of them, and that of a "pf2" block has two paragraphs, the last of
\* which carries the link back to the reference
AddNote(t, ol, kind, k, start) ==
    LET N  == str(start + k - 1)
        t0 == SubElement(t, ol, Tags.li,
                  <<Attr(Attrs.id, Lits.footnote \o N)>>, None, None)
        li == Last(t0)
        t1 == IF kind = "pf2"
              THEN SubElement(t0, li, Tags.p, <<>>, <<"m">> \o str(k), None)
              ELSE t0
        t2 == SubElement(t1, li, Tags.p, <<>>,
                  IF kind \in {"pln", "pl2"} THEN <<"s">> \o str(k)
                  ELSE NoteText(k) \o <<" ">>,
                  None)
        p  == Last(t2)
        t3 == IF kind \in {"pln", "pl2"}
              THEN SubElement(t2, p, Tags.a,
                       <<Attr(Attrs.href, <<"u","/","v">>)>>, <<"u","/","v">>, <<" ">>)
              ELSE t2
        t4 == IF kind = "pl2"
              THEN SubElement(t3, p, Tags.a,
                       <<Attr(Attrs.href, <<"w","/","x">>)>>, <<"w","/","x">>, <<" ">>)
              ELSE t3
    IN  SubElement(t4, p, Tags.a,
            <<Attr(Attrs.href, <<"#">> \o Lits.footnote_ref \o <<"-">> \o N)>>,
            <<UpArrow>>, None)

RECURSIVE AddNotes(_, _, _, _, _)
AddNotes(t, ol, blocks, i, start) ==
    IF i > Len(blocks) \/ ~Evaluated(t) THEN t
    ELSE AddNotes(IF blocks[i] \in MarkerBlocks
                  THEN AddNote(t, ol, blocks[i], MarkersUpTo(blocks, i), start)
                  ELSE t,
                  ol, blocks, i + 1, start)

\* the content of the main grid: the blocks, then mammoth's list of notes
AddContent(t, grid, doc) ==
    LET t1 == AddBlocks(t, grid, doc.blocks, 1, doc.start)
    IN  IF MarkersUpTo(doc.blocks, Len(doc.blocks)) = 0 THEN t1
        ELSE LET t2 == SubElement(t1, grid, Tags.ol, <<>>, None, None)
             IN  AddNotes(t2, Last(t2), doc.blocks, 1, doc.start)

EmptyTree == [nodes |-> <<>>, root |-> 1]

\* <body><div class="gridContainer"><div class="mainGrid">
BodySkeleton(t, parent) ==
    LET t1 == IF parent = 0
              THEN Element(t, Tags.body, <<>>, None, None)
              ELSE SubElement(t, parent, Tags.body, <<>>, None, None)
        t2 == SubElement(t1, Last(t1), Tags.div,
                  <<Attr(Attrs.class, Lits.gridContainer)>>, None, None)
    IN  SubElement(t2, Last(t2), Tags.div, <<Attr(Attrs.class, Lits.mainGrid)>>, None, None)

enclose_body(input, bodyCheckVar, pageTitleEntryText) ==
    IF bodyCheckVar
    THEN LET t1 == BodySkeleton(EmptyTree, 0)
         IN  AddContent(t1, Last(t1), input)
    ELSE LET t0 == Element(EmptyTree, Tags.html, <<>>, None, None)
             t1 == SubElement(t0, 1, Tags.head, <<>>, None, None)
             hd == Last(t1)
             t2 == IF pageTitleEntryText # <<>>
                   THEN SubElement(t1, hd, Tags.title, <<>>, pageTitleEntryText, None)
                   ELSE t1
             t3 == SubElement(t2, hd, Tags.meta,
                       <<Attr(Attrs.charset, Lits.UTF8)>>, None, None)
             t4 == BodySkeleton(t3, 1)
         IN  AddContent(t4, Last(t4), input)

(***************************************************************************)
(* XPath helpers.                                                          *)
(***************************************************************************)
\* [contains(@name, pat)]: false when the attribute is absent
AttrContains(t, n, name, pat) ==
    HasAttr(t, n, name) /\ Contains(GetAttr(t, n, name), pat)

\* [@name="value"]
AttrIs(t, n, name, value) == HasAttr(t, n, name) /\ GetAttr(t, n, name) = value

\* .//li[@id=ident]/.. : the parents of the list items with that id
NoteListPath(t, ident) ==
    SelectSeq(AllNodes(t), LAMBDA n :
        \E c \in Range(Kids(t, n)) : IsTag(t, c, Tags.li) /\ AttrIs(t, c, Attrs.id, ident))

IsFootnoteRef(t, n) == IsTag(t, n, Tags.a) /\ AttrContains(t, n, Attrs.id, Lits.footnote_ref)

\* //a[contains(@id, "footnote-ref")]
FootnoteRefs(t) == SelectSeq(AllNodes(t), LAMBDA n : IsFootnoteRef(t, n))

\* //sup/a[contains(@id, "footnote-ref")]/..
FootnoteSups(t) ==
    SelectSeq(AllNodes(t), LAMBDA n :
        IsTag(t, n, Tags.sup) /\ \E c \in Range(Kids(t, n)) : IsFootnoteRef(t, c))

IsTooltipPop(t, n) == IsTag(t, n, Tags.span) /\ AttrContains(t, n, Attrs.class, Lits.tooltippop)

\* //sup/span[contains(@class, "tooltippop")]/..
TooltipSups(t) ==
    SelectSeq(AllNodes(t), LAMBDA n :
        IsTag(t, n, Tags.sup) /\ \E c \in Range(Kids(t, n)) : IsTooltipPop(t, c))

(***************************************************************************)
(* FOOTNOTES                                                               *)
(***************************************************************************)

\* re.sub(r'(<p>)(.*?)(<a href="#footnote-ref)(.*)', r'\2', s)
StripBacklink(s) ==
    LET i == Find(s, Lits.open_p, 1)
        j == IF i = 0 THEN 0 ELSE Find(s, Lits.backlink, i + 3)
    IN  IF j = 0 THEN s
        ELSE SubSeq(s, 1, i - 1) \o SubSeq(s, i + 3, j - 1)

\* one entry per child of a list item
Fragment(t, p, abbreviateFootnotesNumber) ==
    IF abbreviateFootnotesNumber # <<>>
    THEN ReplaceAll(itertext(t, p), <<" ", UpArrow>>, <<>>)
    ELSE StripBacklink(tostring(t, p))

\* variant: only a list that holds item "footnote-1" is found
create_footnotes_list_one_only(bodyxml, abbreviateFootnotesNumber) ==
    LET footnotePath == NoteListPath(bodyxml, Lits.footnote \o <<"1">>)
        ofLi(li) == [i \in 1..Len(Kids(bodyxml, li)) |->
                        Fragment(bodyxml, Kids(bodyxml, li)[i], abbreviateFootnotesNumber)]
        ofOl(ol) == Concat([i \in 1..Len(Kids(bodyxml, ol)) |-> ofLi(Kids(bodyxml, ol)[i])])
    IN  Concat([i \in 1..Len(footnotePath) |-> ofOl(footnotePath[i])])

create_footnotes_list(bodyxml, abbreviateFootnotesNumber) ==
    LET one == NoteListPath(bodyxml, Lits.footnote \o <<"1">>)
        footnotePath == IF one = <<>>
                        THEN NoteListPath(bodyxml, Lits.footnote \o <<"0">>)
                        ELSE one
        ofLi(li) == [i \in 1..Len(Kids(bodyxml, li)) |->
                        Fragment(bodyxml, Kids(bodyxml, li)[i], abbreviateFootnotesNumber)]
        ofOl(ol) == Concat([i \in 1..Len(Kids(bodyxml, ol)) |-> ofLi(Kids(bodyxml, ol)[i])])
    IN  Concat([i \in 1..Len(footnotePath) |-> ofOl(footnotePath[i])])

\* variant: an entry of exactly K characters is cut as well
Abbreviated_from_K(f, K) == IF Len(f) >= K THEN SubSeq(f, 1, K) \o Lits.ellipsis ELSE f

\* footnotes[i][:K] + '[...]' for the entries longer than K
Abbreviated(f, K) == IF Len(f) > K THEN SubSeq(f, 1, K) \o Lits.ellipsis ELSE f

\* the result: the list, whether messagebox.showerror was called, and the
\* exception that left the function ("" for a normal return)
abbreviate_footnotes(footnotes, abbreviateFootnotesNumber) ==
    IF abbreviateFootnotesNumber = <<>>
    THEN [footnotes |-> footnotes, showerror |-> FALSE, raised |-> ""]
    ELSE IF isdigit(abbreviateFootnotesNumber)
    THEN IF IntRaises(abbreviateFootnotesNumber)
         THEN [footnotes |-> footnotes, showerror |-> FALSE, raised |-> "ValueError"]
         ELSE [footnotes |-> [i \in 1..Len(footnotes) |->
                                 Abbreviated(footnotes[i], int(abbreviateFootnotesNumber))],
               showerror |-> FALSE, raised |-> ""]
    ELSE [footnotes |-> footnotes, showerror |-> TRUE, raised |-> ""]

\* the first match of (<a.*?>)(.*?)(</a>) in s at or after from, as
\* <<start of the tag, its closing ">", start of "</a>">>; <<0, 0, 0>> if none
LinkMatch(s, from) ==
    LET i == Find(s, Lits.open_a, from)
        j == IF i = 0 THEN 0 ELSE Find(s, <<">">>, i + 2)
        k == IF j = 0 THEN 0 ELSE Find(s, Lits.close_a, j + 1)
    IN  IF k = 0 THEN <<0, 0, 0>> ELSE <<i, j, k>>

\* re.sub(r'(.*?)(<a.*?>)(.*?)(</a>)(.*)', r'\3', s): the text of the first link
FirstLinkText(s) ==
    LET m == LinkMatch(s, 1)
    IN  IF m[1] = 0 THEN s ELSE SubSeq(s, m[2] + 1, m[3] - 1)

\* re.sub(r'(<a.*?>)(.*?)(</a>)', r'\1' + replace + r'\3', s)
RECURSIVE SubLinkText(_, _)
SubLinkText(s, replace) ==
    LET m == LinkMatch(s, 1)
    IN  IF m[1] = 0 THEN s
        ELSE SubSeq(s, 1, m[2]) \o replace \o Lits.close_a
             \o SubLinkText(SubSeq(s, m[3] + 4, Len(s)), replace)

\* re.compile(r'(<a.*?>)').search(s)
HasLinkTag(s) ==
    LET i == Find(s, Lits.open_a, 1)
    IN  i # 0 /\ Find(s, <<">">>, i + 2) # 0

WbrOne(f, abbreviateFootnotesNumber) ==
    IF abbreviateFootnotesNumber # <<>>
    THEN ReplaceAll(f, <<"/">>, Lits.slash_wbr)
    ELSE IF HasLinkTag(f)
         THEN SubLinkText(f, ReplaceAll(FirstLinkText(f), <<"/">>, Lits.slash_wbr))
         ELSE f

add_wbr_footnotes(footnotesAbbr, abbreviateFootnotesNumber) ==
    [i \in 1..Len(footnotesAbbr) |-> WbrOne(footnotesAbbr[i], abbreviateFootnotesNumber)]

\* variant: one id for every tooltip
TooltipID_shared(i) == Lits.tooltip \o <<"-">>

\* 'tooltip-' + str(i + 1)
TooltipID(i) == Lits.tooltip \o <<"-">> \o str(i + 1)

\* the body of the loop of insert_footnotes for one <sup>, i counted from 0
InsertTooltip(t, node, i, footnotesAbbr) ==
    LET ident == TooltipID(i)
        t1 == Element(t, Tags.span,
                  <<Attr(Attrs.role, Lits.tooltip), Attr(Attrs.id, ident)>>, None, None)
        tooltiptextSpan == Last(t1)
        t2 == Element(t1, Tags.span,
                  <<Attr(Attrs.class, Lits.tooltippop), Attr(Attrs.describedby, ident)>>,
                  None, None)
        tooltipSpan == Last(t2)
        t3 == SetText(t2, tooltiptextSpan, footnotesAbbr[i + 1])
        t4 == append(t3, node, tooltiptextSpan)
        t5 == extend(t4, tooltipSpan, node)
    IN  append(t5, node, tooltipSpan)

RECURSIVE InsertLoop(_, _, _, _)
InsertLoop(t, sups, i, footnotesAbbr) ==
    IF i >= Len(sups) \/ ~Evaluated(t) THEN [bodyxml |-> t, raised |-> ""]
    ELSE IF i >= Len(footnotesAbbr) THEN [bodyxml |-> t, raised |-> "IndexError"]
    ELSE InsertLoop(InsertTooltip(t, sups[i + 1], i, footnotesAbbr),
                    sups, i + 1, footnotesAbbr)

insert_footnotes(tooltipsCheckVar, bodyxml, footnotesAbbr) ==
    IF tooltipsCheckVar
    THEN InsertLoop(bodyxml, FootnoteSups(bodyxml), 0, footnotesAbbr)
    ELSE [bodyxml |-> bodyxml, raised |-> ""]

\* element.addnext(x): x becomes the sibling right after element (behind the
\* element's tail, which the element keeps)
addnext(t, n, x) ==
    LET d == Detach(t, x)
        p == getparent(d, n)
        k == Kids(d, p)
        i == CHOOSE j \in 1..Len(k) : k[j] = n
    IN  [d EXCEPT !.nodes[p].kids = SubSeq(k, 1, i) \o <<x>> \o SubSeq(k, i + 1, Len(k))]

\* element.addprevious(x): x becomes the sibling right before element
addprevious(t, n, x) ==
    LET d == Detach(t, x)
        p == getparent(d, n)
        k == Kids(d, p)
        i == CHOOSE j \in 1..Len(k) : k[j] = n
    IN  [d EXCEPT !.nodes[p].kids = SubSeq(k, 1, i - 1) \o <<x>> \o SubSeq(k, i, Len(k))]

\* for a in node: node.addnext(a)   (lxml's iterator has fetched the next
\* child before the current one is moved, so every child is visited)
RECURSIVE AddNextAll(_, _, _)
AddNextAll(t, node, kids) ==
    IF kids = <<>> \/ ~Evaluated(t) THEN t
    ELSE AddNextAll(addnext(t, node, Head(kids)), node, Tail(kids))

\* variant: the children move behind the <sup>, which stays in the tree
UnwrapSup_kept(t, node) == AddNextAll(t, node, Kids(t, node))

\* one <sup> of the removal loop: its children move behind it, then it is removed
UnwrapSup(t, node) ==
    LET t1 == AddNextAll(t, node, Kids(t, node))
    IN  remove(t1, getparent(t1, node), node)

RECURSIVE UnwrapPass(_, _)
UnwrapPass(t, nodes) ==
    IF nodes = <<>> \/ ~Evaluated(t) THEN t
    ELSE UnwrapPass(UnwrapSup(t, Head(nodes)), Tail(nodes))

\* while bodyxml.xpath('//sup/span[contains(@class, "tooltippop")]/..'): ...
RECURSIVE UnwrapLoop(_)
UnwrapLoop(t) ==
    IF TooltipSups(t) = <<>> THEN t ELSE UnwrapLoop(UnwrapPass(t, TooltipSups(t)))

\* variant: the text is left as it is
StripBrackets_kept(s) == s

\* re.sub(r'(\[)(.*)(\])', r'\2', s)
StripBrackets(s) ==
    LET i  == Find(s, <<"[">>, 1)
        J  == {j \in 1..Len(s) : s[j] = "]" /\ j > i}
        jj == CHOOSE j \in J : \A x \in J : x <= j
    IN  IF i = 0 \/ J = {} THEN s
        ELSE SubSeq(s, 1, i - 1) \o SubSeq(s, i + 1, jj - 1) \o SubSeq(s, jj + 1, Len(s))

\* variant: the new <sup> is put into the anchor, the anchor keeps its text
SupInsideAnchor_text_kept(t, a) ==
    LET t1  == SetText(t, a, StripBrackets(t.nodes[a].text))
        t2  == SetAttr(t1, a, Attrs.label, Lits.label_text)
        t3  == Element(t2, Tags.sup, <<>>, None, None)
        sup == Last(t3)
        t4  == SetText(t3, sup, t3.nodes[a].text)
        t6  == extend(t4, sup, a)
    IN  append(t6, a, sup)

\* the loop body that rebuilds <sup> inside one anchor
SupInsideAnchor(t, a) ==
    LET t1  == SetText(t, a, StripBrackets(t.nodes[a].text))
        t2  == SetAttr(t1, a, Attrs.label, Lits.label_text)
        t3  == Element(t2, Tags.sup, <<>>, None, None)
        sup == Last(t3)
        t4  == SetText(t3, sup, t3.nodes[a].text)
        t5  == SetText(t4, a, <<>>)
        t6  == extend(t5, sup, a)
    IN  append(t6, a, sup)

\* re.sub on a.text raises TypeError when the anchor has no text
RECURSIVE AnchorLoop(_, _, _)
AnchorLoop(t, anchors, tooltipsCheckVar) ==
    IF anchors = <<>> THEN [bodyxml |-> t, raised |-> ""]
    ELSE IF t.nodes[Head(anchors)].text = None
    THEN [bodyxml |-> t, raised |-> "TypeError"]
    ELSE AnchorLoop(IF tooltipsCheckVar
                    THEN SupInsideAnchor(t, Head(anchors))
                    ELSE SetText(t, Head(anchors), StripBrackets(t.nodes[Head(anchors)].text)),
                    Tail(anchors), tooltipsCheckVar)

adjust_footnotes(tooltipsCheckVar, bodyxml) ==
    IF tooltipsCheckVar
    THEN LET t1 == UnwrapLoop(bodyxml)
         IN  AnchorLoop(t1, FootnoteRefs(t1), TRUE)
    ELSE AnchorLoop(bodyxml, FootnoteRefs(bodyxml), FALSE)

RECURSIVE SetAttrAll(_, _, _, _)
SetAttrAll(t, nodes, name, value) ==
    IF nodes = <<>> \/ ~Evaluated(t) THEN t
    ELSE SetAttrAll(SetAttr(t, Head(nodes), name, value), Tail(nodes), name, value)

\* p.xpath('//a[contains(@href, "footnote-ref")]'): an absolute path, the
\* whole document whatever p is
BackLinks(t) ==
    SelectSeq(AllNodes(t), LAMBDA n :
        IsTag(t, n, Tags.a) /\ AttrContains(t, n, Attrs.href, Lits.footnote_ref))

\* the three separators are given as the indices of the elements that
\* convertAndExport has created
footnotes_bottom_adjust(bodyxml, commentBottomFootnotes, breakElement, hrElement) ==
    LET found == NoteListPath(bodyxml, Lits.footnote \o <<"1">>)
    IN  IF found = <<>> THEN bodyxml
        ELSE LET bottomFootnotes == Head(found)
                 t1 == addprevious(bodyxml, bottomFootnotes, commentBottomFootnotes)
                 t2 == addprevious(t1, bottomFootnotes, breakElement)
                 t3 == addprevious(t2, bottomFootnotes, hrElement)
                 t4 == addprevious(t3, bottomFootnotes, breakElement)
                 labelled == \E i \in 1..Len(Kids(t4, bottomFootnotes)) :
                                Kids(t4, Kids(t4, bottomFootnotes)[i]) # <<>>
             IN  IF labelled
                 THEN SetAttrAll(t4, BackLinks(t4), Attrs.aria_label, Lits.back_label)
                 ELSE t4

(***************************************************************************)
(* TEXT                                                                    *)
(***************************************************************************)
RECURSIVE WbrLoop(_, _)
WbrLoop(t, anchors) ==
    IF anchors = <<>> \/ ~Evaluated(t) THEN t
    ELSE LET a == Head(anchors)
         IN  WbrLoop(IF t.nodes[a].text # None
                     THEN SetText(t, a, ReplaceAll(t.nodes[a].text, <<"/">>, Lits.slash_wbr))
                     ELSE t,
                     Tail(anchors))

add_wbr_text(bodyxml) == WbrLoop(bodyxml, ByTag(bodyxml, Tags.a))

IsHeading(t, n) == IsTag(t, n, Tags.h1) \/ IsTag(t, n, Tags.h2) \/ IsTag(t, n, Tags.h3)

\* //h1|//h2|//h3 and .//*[self::h1 or self::h2 or self::h3]: document order
Headings(t) == SelectSeq(AllNodes(t), LAMBDA n : IsHeading(t, n))

\* variant: the counter is left out of the id
HeadingID_unnumbered(i) == Lits.heading

\* 'heading' + str(i)
HeadingID(i) == Lits.heading \o str(i)

RECURSIVE HeadIDLoop(_, _, _)
HeadIDLoop(t, nodes, i) ==
    IF nodes = <<>> \/ ~Evaluated(t) THEN t
    ELSE HeadIDLoop(SetAttr(t, Head(nodes), Attrs.id, HeadingID(i)),
                    Tail(nodes), i + 1)

add_Head_IDs(headingsIDVar, bodyxml) ==
    IF headingsIDVar THEN HeadIDLoop(bodyxml, Headings(bodyxml), 1) ELSE bodyxml

\* for a in node: tail = a.tail; node.remove(a); node.text = tail
\* (every child of node is visited, whatever it is)
RemoveKids(t, node) ==
    LET k == Kids(t, node)
    IN  IF k = <<>> THEN t
        ELSE [t EXCEPT !.nodes[node].kids = <<>>,
                       !.nodes[node].text = t.nodes[k[Len(k)]].tail]

\* .//a[contains(@id, pat)]/..
AnchorParents(t, pat) ==
    SelectSeq(AllNodes(t), LAMBDA n :
        \E c \in Range(Kids(t, n)) : IsTag(t, c, Tags.a) /\ AttrContains(t, c, Attrs.id, pat))

\* for node in findID: for a in node: ...
RECURSIVE repeat_removal(_, _)
repeat_removal(findID, bodyxml) ==
    IF findID = <<>> \/ ~Evaluated(bodyxml) THEN bodyxml
    ELSE repeat_removal(Tail(findID), RemoveKids(bodyxml, Head(findID)))

remove_word_lnks(bodyxml) ==
    LET t1 == repeat_removal(AnchorParents(bodyxml, Lits.Toc), bodyxml)
        t2 == repeat_removal(AnchorParents(t1, Lits.underscore_heading), t1)
    IN  repeat_removal(AnchorParents(t2, Lits.Hlk), t2)

(***************************************************************************)
(* NAVIGATION                                                              *)
(***************************************************************************)

OpenTag(tag) == <<"<">> \o tag \o <<" ">>
CloseTag(tag) == <<"<","/">> \o tag \o <<">">>

\* re.sub(r'(<hN .*?>)(.*?)(</hN>)', r'\2', s), scanning from position from
RECURSIVE StripHeading(_, _, _)
StripHeading(s, tag, from) ==
    LET i  == Find(s, OpenTag(tag), from)
        j  == IF i = 0 THEN 0 ELSE Find(s, Lits.gt, i + Len(OpenTag(tag)))
        cl == IF j = 0 THEN 0 ELSE Find(s, CloseTag(tag), j + 1)
    IN  IF cl = 0 THEN SubSeq(s, from, Len(s))
        ELSE SubSeq(s, from, i - 1) \o SubSeq(s, j + 1, cl - 1)
                 \o StripHeading(s, tag, cl + Len(CloseTag(tag)))

headingsText(t, node) ==
    LET s0 == tostring(t, node)
        s1 == StripHeading(s0, Tags.h1, 1)
        s2 == StripHeading(s1, Tags.h2, 1)
        s3 == StripHeading(s2, Tags.h3, 1)
    IN  ReplaceAll(s3, Lits.page_markup, <<>>)

\* variant: the links count from 0
NavHref_from_zero(i) == Lits.hash_heading \o str(i - 1)

\* '#heading' + str(i)
NavHref(i) == Lits.hash_heading \o str(i)

\* one pass of the loop over findH1: a new <p> or <button> with its link
NavItem(t, node, i, navigationTypeVar, navigationElement) ==
    LET t1 == Element(t, IF navigationTypeVar = "paragraph" THEN Tags.p ELSE Tags.button,
                      <<>>, None, None)
        elementPorB == Last(t1)
        t2 == SubElement(t1, elementPorB, Tags.a, <<>>, None, None)
        a  == Last(t2)
        t3 == SetAttr(t2, a, Attrs.href, NavHref(i))
        t4 == SetText(t3, a, headingsText(t3, node))
    IN  append(t4, navigationElement, elementPorB)

RECURSIVE NavLoop(_, _, _, _, _)
NavLoop(t, nodes, i, navigationTypeVar, navigationElement) ==
    IF nodes = <<>> \/ ~Evaluated(t) THEN t
    ELSE NavLoop(NavItem(t, Head(nodes), i, navigationTypeVar, navigationElement),
                 Tail(nodes), i + 1, navigationTypeVar, navigationElement)

\* findH1 is an XPath result, a list, so "findH1 != None" always holds
create_navigation(t, navigationVar, navigationTypeVar, findH1, navigationElement, commentNavigation, h1Navigation, navGridDiv) ==
    IF navigationVar
    THEN LET t1 == NavLoop(t, findH1, 1, navigationTypeVar, navigationElement)
             t2 == append(t1, navGridDiv, commentNavigation)
             t3 == append(t2, navGridDiv, h1Navigation)
         IN  append(t3, navGridDiv, navigationElement)
    ELSE t

(***************************************************************************)
(* BLOCKQUOTES                                                             *)
(***************************************************************************)
\* node.xpath('.//a[contains(@id, "footnote-ref")]/sup')
tooltiptextPath(t, node) ==
    SelectSeq(Subtree(t, node), LAMBDA n :
        /\ n # node
        /\ IsTag(t, n, Tags.sup)
        /\ IsFootnoteRef(t, getparent(t, n)))

\* variant: every block quote is taken to hold a footnote reference
HasMarker_always(t, node) == TRUE

\* if node.xpath(tooltiptextPath):
HasMarker(t, node) == tooltiptextPath(t, node) # <<>>

\* node.xpath(tooltiptextPath)[0], int(text), then footnotes[footnotenumber - 1]
\* with Python's indexing: a negative index counts from the end of the list
CiteOne(t, node, footnotes) ==
    LET found == tooltiptextPath(t, node)
        text == t.nodes[Head(found)].text
        idx  == int(text) - 1
        n    == Len(footnotes)
    IN  IF found = <<>> THEN [bodyxml |-> t, raised |-> "IndexError"]
        ELSE IF text = None THEN [bodyxml |-> t, raised |-> "TypeError"]
        ELSE IF ~isdigit(text) \/ IntRaises(text)
        THEN [bodyxml |-> t, raised |-> "ValueError"]
        ELSE IF idx >= n \/ idx < 0 - n
        THEN [bodyxml |-> t, raised |-> "IndexError"]
        ELSE [bodyxml |-> SetAttr(t, node, Attrs.cite,
                                  footnotes[IF idx >= 0 THEN idx + 1 ELSE n + idx + 1]),
              raised |-> ""]

RECURSIVE CiteLoop(_, _, _)
CiteLoop(t, nodes, footnotes) ==
    IF nodes = <<>> THEN [bodyxml |-> t, raised |-> ""]
    ELSE IF ~HasMarker(t, Head(nodes))
    THEN CiteLoop(t, Tail(nodes), footnotes)
    ELSE LET r == CiteOne(t, Head(nodes), footnotes)
         IN  IF r.raised # "" THEN r ELSE CiteLoop(r.bodyxml, Tail(nodes), footnotes)

add_cite(bodyxml, footnotes) == CiteLoop(bodyxml, ByTag(bodyxml, Tags.blockquote), footnotes)

(***************************************************************************)
(* PAGE BREAKS                                                             *)
(***************************************************************************)
\* .//sub[@class="pagenumber"]
PageNumbers(t) ==
    SelectSeq(AllNodes(t), LAMBDA n :
        IsTag(t, n, Tags.sub) /\ AttrIs(t, n, Attrs.class, Lits.pagenumber))

RECURSIVE ClearLoop(_, _)
ClearLoop(t, nodes) ==
    IF nodes = <<>> \/ ~Evaluated(t) THEN t
    ELSE ClearLoop(SetText(t, Head(nodes), <<>>), Tail(nodes))

RECURSIVE NumberLoop(_, _, _)
NumberLoop(t, nodes, i) ==
    IF nodes = <<>> \/ ~Evaluated(t) THEN t
    ELSE NumberLoop(SetText(t, Head(nodes),
                            IF i <= 0 THEN <<>> ELSE <<"{">> \o str(i) \o <<"}">>),
                    Tail(nodes), i + 1)

\* variant: the count starts one page late
FirstPageNumber_from_one(pageNumberStartCheckVar) == 1 - int(pageNumberStartCheckVar)

\* i = 2 - int(pageNumberStartCheckVar)
FirstPageNumber(pageNumberStartCheckVar) == 2 - int(pageNumberStartCheckVar)

\* bodyxml[0] in fragment mode, bodyxml[1][0][0] in full-document mode
PageSubParent(t, bodyCheckVar) ==
    IF bodyCheckVar THEN Kids(t, t.root)[1]
    ELSE Kids(t, Kids(t, Kids(t, t.root)[2])[1])[1]

page_breaks(pageNumberCheckVar, pageNumberStartCheckVar, bodyxml, bodyCheckVar) ==
    IF pageNumberCheckVar /\ pageNumberStartCheckVar # <<>>
    THEN LET t1 == Element(bodyxml, Tags.sub, <<>>, None, None)
             pageSub == Last(t1)
             t2 == SetAttr(t1, pageSub, Attrs.class, Lits.pagenumber)
             t3 == insert(t2, PageSubParent(t2, bodyCheckVar), 0, pageSub)
         IN  IF isdigit(pageNumberStartCheckVar)
             THEN IF IntRaises(pageNumberStartCheckVar)
                  THEN [bodyxml |-> t3, showerror |-> 0, raised |-> "ValueError"]
                  ELSE [bodyxml |-> NumberLoop(t3, PageNumbers(t3),
                                               FirstPageNumber(pageNumberStartCheckVar)),
                        showerror |-> 0, raised |-> ""]
             ELSE [bodyxml |-> ClearLoop(t3, PageNumbers(t3)),
                   showerror |-> 1, raised |-> ""]
    ELSE [bodyxml |-> ClearLoop(bodyxml, PageNumbers(bodyxml)),
          showerror |-> 0, raised |-> ""]

(***************************************************************************)
(* STYLE MAP                                                               *)
(***************************************************************************)
\* one "if field != '': custom_style_map += '\n' + rule" step, the rule
\* being f"p[style-name='{name}'] => target:fresh"
AddRule(map, name, target) ==
    IF name # <<>>
    THEN map \o <<"\n">> \o Lits.rule_open \o name \o Lits.rule_arrow \o target
         \o Lits.fresh
    ELSE map

\* variant: the rule of the numbering-exempt style does not look at the
\* paragraph numbering option
AddIgnorePNumRule_unconditional(map, ignorePNum, paragraphNumberCheck) ==
    AddRule(map, ignorePNum, Lits.to_ignorePNum)

\* if (ignorePNum != "") and (paragraphNumberCheck): ...
AddIgnorePNumRule(map, ignorePNum, paragraphNumberCheck) ==
    IF paragraphNumberCheck THEN AddRule(map, ignorePNum, Lits.to_ignorePNum) ELSE map

style_map_func(custom_style_map, headings1, headings2, headings3, images, videos, audio, media, blockquotes, tableCaptions, bibliography, ignorePNum, paragraphNumberCheck, code, addStyleMap) ==
    LET m1  == IF headings1 # <<>>
               THEN custom_style_map \o Lits.rule_open \o headings1 \o Lits.rule_arrow
                    \o Lits.to_h1 \o Lits.fresh
               ELSE custom_style_map
        m2  == AddRule(m1, headings2, Lits.to_h2)
        m3  == AddRule(m2, headings3, Lits.to_h3)
        m4  == AddRule(m3, images, Lits.to_img)
        m5  == AddRule(m4, videos, Lits.to_iframe)
        m6  == AddRule(m5, audio, Lits.to_audio)
        m7  == AddRule(m6, media, Lits.to_media)
        m8  == AddRule(m7, blockquotes, Lits.to_blockquote)
        m9  == AddRule(m8, tableCaptions, Lits.to_caption)
        m10 == AddRule(m9, bibliography, Lits.to_bibliography)
        m11 == AddIgnorePNumRule(m10, ignorePNum, paragraphNumberCheck)
        m12 == AddRule(m11, code, Lits.to_code)
    IN  IF addStyleMap # <<>> THEN m12 \o <<"\n">> \o addStyleMap ELSE m12

(***************************************************************************)
(* MEDIA AND TABLES                                                        *)
(***************************************************************************)
\* an attribute cannot be set to None: lxml raises TypeError
RECURSIVE EmbedLoop(_, _, _, _, _)
EmbedLoop(t, nodes, width, height, showinfo) ==
    IF nodes = <<>> \/ ~Evaluated(t)
    THEN [bodyxml |-> t, showinfo |-> showinfo, raised |-> ""]
    ELSE IF t.nodes[Head(nodes)].text = None
    THEN [bodyxml |-> t, showinfo |-> showinfo, raised |-> "TypeError"]
    ELSE LET node == Head(nodes)
             t1 == SetAttr(t, node, Attrs.src, t.nodes[node].text)
             t2 == IF width # None THEN SetAttr(t1, node, Attrs.width, width) ELSE t1
             t3 == IF height # None THEN SetAttr(t2, node, Attrs.height, height) ELSE t2
         IN  EmbedLoop(SetText(t3, node, <<>>), Tail(nodes), width, height, showinfo)

\* the common text of embed_images and embed_videos: the entry is split at
\* the commas, the width and the height are taken from it or a notice is
\* shown, then every //tag[@class="class"] gets its attributes
Embed(bodyxml, dimensions, tag, class) ==
    LET cs     == SelectSeq([i \in 1..Len(dimensions) |-> i],
                            LAMBDA i : dimensions[i] = ",")
        bounds == <<0>> \o cs \o <<Len(dimensions) + 1>>
        splitDimensions ==
            [k \in 1..(Len(cs) + 1) |->
                SubSeq(dimensions, bounds[k] + 1, bounds[k + 1] - 1)]
        correct == /\ Len(splitDimensions) = 2
                   /\ isdigit(splitDimensions[1])
                   /\ isdigit(splitDimensions[2])
        empty   == Len(splitDimensions) = 1 /\ splitDimensions[1] = <<>>
        nodes   == SelectSeq(AllNodes(bodyxml), LAMBDA n :
                       IsTag(bodyxml, n, tag) /\ AttrIs(bodyxml, n, Attrs.class, class))
    IN  EmbedLoop(bodyxml, nodes,
                  IF correct THEN splitDimensions[1] ELSE None,
                  IF correct THEN splitDimensions[2] ELSE None,
                  IF correct \/ empty THEN 0 ELSE 1)

embed_images(bodyxml, dimensions) == Embed(bodyxml, dimensions, Tags.img, Lits.insertimage)

embed_videos(bodyxml, dimensions) == Embed(bodyxml, dimensions, Tags.iframe, Lits.insertvideo)

RECURSIVE AudioLoop(_, _)
AudioLoop(t, nodes) ==
    IF nodes = <<>> \/ ~Evaluated(t) THEN [bodyxml |-> t, raised |-> ""]
    ELSE IF t.nodes[Head(nodes)].text = None
    THEN [bodyxml |-> t, raised |-> "TypeError"]
    ELSE LET node == Head(nodes)
             t1 == Element(t, Tags.source, <<>>, None, None)
             t2 == SetAttr(t1, Last(t1), Attrs.src, t.nodes[node].text)
             t3 == append(t2, node, Last(t1))
             t4 == SetText(t3, node, <<>>)
         IN  AudioLoop(SetAttr(t4, node, Attrs.controls, Lits.True), Tail(nodes))

\* //audio[@class="insertaudio"]
embed_audio(bodyxml) ==
    AudioLoop(bodyxml,
        SelectSeq(AllNodes(bodyxml), LAMBDA n :
            IsTag(bodyxml, n, Tags.audio)
            /\ AttrIs(bodyxml, n, Attrs.class, Lits.insertaudio)))

RECURSIVE MessageLoop(_, _)
MessageLoop(t, nodes) ==
    IF nodes = <<>> \/ ~Evaluated(t) THEN t
    ELSE LET t1 == Element(t, Tags.comment, <<>>, Lits.insert_media, None)
         IN  MessageLoop(addprevious(t1, Head(nodes), Last(t1)), Tail(nodes))

\* //p[contains(@class, "mediacaption")]
file_insertion_message(bodyxml) ==
    MessageLoop(bodyxml,
        SelectSeq(AllNodes(bodyxml), LAMBDA n :
            IsTag(bodyxml, n, Tags.p)
            /\ AttrContains(bodyxml, n, Attrs.class, Lits.mediacaption)))

\* element.getprevious(): the sibling element before it, 0 for None
getprevious(t, n) ==
    LET p == getparent(t, n)
        k == IF p = 0 THEN <<n>> ELSE Kids(t, p)
        i == CHOOSE j \in 1..Len(k) : k[j] = n
    IN  IF i = 1 THEN 0 ELSE k[i - 1]

\* None has no attribute tag: AttributeError
RECURSIVE CaptionLoop(_, _)
CaptionLoop(t, nodes) ==
    IF nodes = <<>> \/ ~Evaluated(t) THEN [bodyxml |-> t, raised |-> ""]
    ELSE IF getprevious(t, Head(nodes)) = 0
    THEN [bodyxml |-> t, raised |-> "AttributeError"]
    ELSE CaptionLoop(IF IsTag(t, getprevious(t, Head(nodes)), Tags.table)
                     THEN insert(t, getprevious(t, Head(nodes)), 0, Head(nodes))
                     ELSE t,
                     Tail(nodes))

move_table_caption(bodyxml) == CaptionLoop(bodyxml, ByTag(bodyxml, Tags.caption))

(***************************************************************************)
(* PARAGRAPH NUMBERS                                                       *)
(***************************************************************************)
\* variant: every top-level paragraph is numbered, whatever its class
NumberedNodes_all_paragraphs(t) ==
    SelectSeq(AllNodes(t), LAMBDA n :
        \/ /\ IsTag(t, n, Tags.p)
           /\ getparent(t, n) # 0
           /\ IsTag(t, getparent(t, n), Tags.div)
           /\ AttrIs(t, getparent(t, n), Attrs.class, Lits.mainGrid)
        \/ IsTag(t, n, Tags.blockquote))

\* //div[@class="mainGrid"]/p[not(@class="mediacaption") and
\* not(@class="ignorePNum") and not(@class="bibliography")]|//blockquote :
\* a union, so in document order
NumberedNodes(t) ==
    SelectSeq(AllNodes(t), LAMBDA n :
        \/ /\ IsTag(t, n, Tags.p)
           /\ getparent(t, n) # 0
           /\ IsTag(t, getparent(t, n), Tags.div)
           /\ AttrIs(t, getparent(t, n), Attrs.class, Lits.mainGrid)
           /\ ~AttrIs(t, n, Attrs.class, Lits.mediacaption)
           /\ ~AttrIs(t, n, Attrs.class, Lits.ignorePNum)
           /\ ~AttrIs(t, n, Attrs.class, Lits.bibliography)
        \/ IsTag(t, n, Tags.blockquote))

RECURSIVE ParagraphLoop(_, _, _)
ParagraphLoop(t, nodes, i) ==
    IF nodes = <<>> \/ ~Evaluated(t) THEN t
    ELSE LET node == Head(nodes)
             text == IF t.nodes[node].text # None
                     THEN <<"[">> \o str(i) \o <<"]", " ">> \o t.nodes[node].text
                     ELSE <<"[">> \o str(i) \o <<"]", " ">>
         IN  ParagraphLoop(SetText(t, node, text), Tail(nodes), i + 1)

paragraph_numbering(paragraphNumberCheckVar, bodyxml) ==
    IF paragraphNumberCheckVar
    THEN ParagraphLoop(bodyxml, NumberedNodes(bodyxml), 1)
    ELSE bodyxml

(***************************************************************************)
(* FINALISATION                                                            *)
(***************************************************************************)
\* the concatenation of f[lo], ..., f[hi], halving the range so that a long
\* text does not need a deep recursion
RECURSIVE Join(_, _, _)
Join(f, lo, hi) ==
    IF lo > hi THEN <<>>
    ELSE IF lo = hi THEN f[lo]
    ELSE LET mid == (lo + hi) \div 2
         IN  Join(f, lo, mid) \o Join(f, mid + 1, hi)

\* etree.tostring(element, encoding='unicode', pretty_print=True) without
\* the newline at the end.  encoding='unicode': no character reference for
\* a character outside ASCII.  pretty_print=True: an element none of whose
\* children is a text node (no text of its own, no tail on a child) has
\* every child on a line of its own, elements indented by two spaces a
\* level; inside an element that has a text node nothing is added, at any
\* depth
RECURSIVE Dump(_, _, _, _)
Dump(t, n, level, format) ==
    LET e   == t.nodes[n]
        esc(s, inAttribute) ==
            IF s = None THEN <<>>
            ELSE Concat([i \in 1..Len(s) |->
                    IF s[i] = UpArrow THEN <<s[i]>> ELSE EscapeChar(s[i], inAttribute)])
        attribs ==
            Concat([i \in 1..Len(e.attrib) |->
                <<" ">> \o e.attrib[i].k \o <<"=","\"">> \o esc(e.attrib[i].v, TRUE)
                \o <<"\"">>])
        indent(l) == [i \in 1..(2 * l) |-> " "]
        fmt == /\ format
               /\ e.text = None
               /\ \A i \in 1..Len(e.kids) : t.nodes[e.kids[i]].tail = None
        kid(i) ==
            LET c == e.kids[i]
            IN  (IF fmt /\ t.nodes[c].tag # Tags.comment THEN indent(level + 1) ELSE <<>>)
                \o Dump(t, c, level + 1, fmt)
                \o (IF fmt THEN <<"\n">> ELSE esc(t.nodes[c].tail, FALSE))
    IN  IF e.tag = Tags.comment
        THEN <<"<","!","-","-">> \o (IF e.text = None THEN <<>> ELSE e.text)
             \o <<"-","-",">">>
        ELSE <<"<">> \o e.tag \o attribs
             \o (IF e.text = None /\ Len(e.kids) = 0
                 THEN <<"/",">">>
                 ELSE <<">">>
                      \o (IF fmt THEN <<"\n">> ELSE <<>>)
                      \o esc(e.text, FALSE)
                      \o Concat([i \in 1..Len(e.kids) |-> kid(i)])
                      \o (IF fmt THEN indent(level) ELSE <<>>)
                      \o <<"<","/">> \o e.tag \o <<">">>)

\* variant: the declaration is written in fragment mode as well
Doctype_always(bodyCheckVar) == Lits.doctype

\* "<!DOCTYPE html>\n" unless only the body is exported
Doctype(bodyCheckVar) == IF bodyCheckVar THEN <<>> ELSE Lits.doctype

\* cssXML, navGridDiv and javascriptXML are elements of the heap of bodyxml
assemble_html(navigationVar, bodyCheckVar, cssCheckVar, cssXML, navGridDiv, bodyxml, javascriptXML, javascriptCheckVar) ==
    LET t1 == IF navigationVar
              THEN IF bodyCheckVar
                   THEN insert(bodyxml, Kids(bodyxml, bodyxml.root)[1], 0, navGridDiv)
                   ELSE insert(bodyxml,
                               Kids(bodyxml, Kids(bodyxml, bodyxml.root)[2])[1],
                               0, navGridDiv)
              ELSE bodyxml
        t2 == IF javascriptCheckVar
              THEN insert(t1, Kids(t1, t1.root)[1], 0, javascriptXML)
              ELSE t1
        t3 == IF cssCheckVar
              THEN insert(t2, Kids(t2, t2.root)[1], 0, cssXML)
              ELSE t2
    IN  [bodyxml |-> t3,
         exportableBodyxml |-> Doctype(bodyCheckVar) \o Dump(t3, t3.root, 0, TRUE)
                               \o <<"\n">>]

\* the character references that the serializer writes, and the apostrophe
\* reference of html.escape
Entities ==
    << [ref |-> <<"&","l","t",";">>, char |-> "<"],
       [ref |-> <<"&","g","t",";">>, char |-> ">"],
       [ref |-> <<"&","a","m","p",";">>, char |-> "&"],
       [ref |-> <<"&","q","u","o","t",";">>, char |-> "\""],
       [ref |-> <<"&","#","x","2","7",";">>, char |-> "'"] >>

\* html.unescape(s): one pass, every reference is replaced by its character
\* (a reference starts with "&" and holds no other "&", so no two overlap)
unescape(s) ==
    LET EntityAt(i) ==
            LET E == {k \in 1..Len(Entities) :
                         /\ i + Len(Entities[k].ref) - 1 <= Len(s)
                         /\ SubSeq(s, i, i + Len(Entities[k].ref) - 1) = Entities[k].ref}
            IN  IF i < 1 \/ E = {} THEN 0 ELSE CHOOSE k \in E : TRUE
        covered(i) == \E j \in (i - 5)..(i - 1) :
                         /\ EntityAt(j) # 0
                         /\ i <= j + Len(Entities[EntityAt(j)].ref) - 1
    IN  Join([i \in 1..Len(s) |->
                 IF EntityAt(i) # 0 THEN <<Entities[EntityAt(i)].char>>
                 ELSE IF covered(i) THEN <<>>
                 ELSE <<s[i]>>],
             1, Len(s))

\* html.escape(s), quote=True
escape(s) ==
    Join([i \in 1..Len(s) |->
             IF \E k \in 1..Len(Entities) : Entities[k].char = s[i]
             THEN Entities[CHOOSE k \in 1..Len(Entities) : Entities[k].char = s[i]].ref
             ELSE <<s[i]>>],
         1, Len(s))

\* re.sub(r'(<code>)(.*?)(</code>)', insertPreCode, s): from the leftmost
\* "<code>" the shortest stretch up to a "</code>"; "." matches no newline
RECURSIVE insertPreCode(_)
insertPreCode(s) ==
    LET i == Find(s, Lits.open_code, 1)
        j == IF i = 0 THEN 0 ELSE Find(s, Lits.close_code, i + 6)
    IN  IF i = 0 THEN s
        ELSE IF j = 0 \/ \E k \in (i + 6)..(j - 1) : s[k] = "\n"
        THEN SubSeq(s, 1, i) \o insertPreCode(SubSeq(s, i + 1, Len(s)))
        ELSE SubSeq(s, 1, i + 5) \o escape(SubSeq(s, i + 6, j - 1)) \o Lits.close_code
             \o insertPreCode(SubSeq(s, j + 7, Len(s)))

escape_unescape(exportableBodyxml) == insertPreCode(unescape(exportableBodyxml))

(***************************************************************************)
(* The program state.  pc names the stage that runs next.  caller tells    *)
(* who drives the stages: "convertAndExport" is the handler of the Convert *)
(* button as written; "functions" calls the functions of the conversion    *)
(* module directly, in the same order, with remove_word_lnks where the     *)
(* handler names remove_toc_and_head.                                      *)
(***************************************************************************)
VARIABLES pc, caller, input, bodyxml, footnotes, showerror, raised, nav,
          headingsIDVar, navigationVar, navigationCheck, navigationTypeVar,
          tooltipsCheckVar, abbreviateTooltipsEntry, bodyCheckVar,
          pageNumberCheckVar, pageNumberStartCheckEntry,
          detect, customStyleMapEntry, paragraphNumberCheckVar,
          imagesDimensionsEntry, videosDimensionsEntry, cssCheckVar,
          javascriptCheckVar, pageTitleEntry,
          custom_style_map, showinfo, exportableBodyxml, outputFile, success

vars == <<pc, caller, input, bodyxml, footnotes, showerror, raised, nav,
          headingsIDVar, navigationVar, navigationCheck, navigationTypeVar,
          tooltipsCheckVar, abbreviateTooltipsEntry, bodyCheckVar,
          pageNumberCheckVar, pageNumberStartCheckEntry,
          detect, customStyleMapEntry, paragraphNumberCheckVar,
          imagesDimensionsEntry, videosDimensionsEntry, cssCheckVar,
          javascriptCheckVar, pageTitleEntry,
          custom_style_map, showinfo, exportableBodyxml, outputFile, success>>

\* the widgets whose values only the user changes, before Convert is pressed
entries == <<caller, input, navigationTypeVar, tooltipsCheckVar,
             abbreviateTooltipsEntry, bodyCheckVar, pageNumberCheckVar,
             pageNumberStartCheckEntry,
             detect, customStyleMapEntry, paragraphNumberCheckVar,
             imagesDimensionsEntry, videosDimensionsEntry, cssCheckVar,
             javascriptCheckVar, pageTitleEntry>>

\* what the first stage and the stages after add_cite leave behind
late == <<custom_style_map, showinfo, exportableBodyxml, outputFile, success>>

gui == <<headingsIDVar, navigationVar, navigationCheck>>

Callers == {"convertAndExport", "functions"}

\* the documents: sequences of at most MaxBlocks blocks; the numbering
\* convention only distinguishes documents that have footnotes
Docs(Kinds) ==
    {d \in [blocks : UNION {[1..n -> Kinds] : n \in 0..MaxBlocks}, start : {0, 1}] :
        MarkersUpTo(d.blocks, Len(d.blocks)) = 0 => d.start = 1}

NoNav == [navigationElement |-> 0, commentNavigation |-> 0,
          h1Navigation |-> 0, navGridDiv |-> 0]

\* the window after construction: the settings file gives every widget its
\* value, and "Create navigation?" is enabled iff headingsidvar is set
InitWith(D, Tooltips, Thresholds, BodyChecks, PageChecks, PageStarts, NavTypes, IniHeadings, IniNavigation) ==
    /\ pc = "idle"
    /\ caller \in Callers
    /\ input \in D
    /\ bodyxml = EmptyTree
    /\ footnotes = <<>>
    /\ showerror = 0
    /\ raised = ""
    /\ nav = NoNav
    /\ headingsIDVar \in IniHeadings
    /\ navigationVar \in IniNavigation
    /\ navigationCheck = IF headingsIDVar THEN "normal" ELSE "disabled"
    /\ navigationTypeVar \in NavTypes
    /\ tooltipsCheckVar \in Tooltips
    /\ abbreviateTooltipsEntry \in Thresholds
    /\ bodyCheckVar \in BodyChecks
    /\ pageNumberCheckVar \in PageChecks
    /\ pageNumberStartCheckEntry \in PageStarts

\* the entries of the "Format templates" frame when the fields of Empty are
\* left empty and every other one holds a style name
Detect(Empty) ==
    LET name == [headings1 |-> <<"A">>, headings2 |-> <<"B">>, headings3 |-> <<"C">>,
                 images |-> <<"D">>, videos |-> <<"E">>, audio |-> <<"F">>,
                 media |-> <<"G">>, blockquotes |-> <<"H">>, tableCaptions |-> <<"I">>,
                 bibliography |-> <<"J">>, ignorePNum |-> <<"K">>, code |-> <<"L">>]
    IN  [f \in DOMAIN name |-> IF f \in Empty THEN <<>> ELSE name[f]]

\* the rest of the window after construction
InitLate(Detects, StyleTexts, ParagraphChecks, ImageDims, VideoDims, CssChecks, JsChecks, Titles) ==
    /\ detect \in Detects
    /\ customStyleMapEntry \in StyleTexts
    /\ paragraphNumberCheckVar \in ParagraphChecks
    /\ imagesDimensionsEntry \in ImageDims
    /\ videosDimensionsEntry \in VideoDims
    /\ cssCheckVar \in CssChecks
    /\ javascriptCheckVar \in JsChecks
    /\ pageTitleEntry \in Titles
    /\ custom_style_map = <<>>
    /\ showinfo = 0
    /\ exportableBodyxml = <<>>
    /\ outputFile = None
    /\ success = FALSE

\* a click on "Add IDs to headings?": the variable flips, then ableNavigation
ClickHeadingsID ==
    /\ pc = "idle"
    /\ headingsIDVar' = ~headingsIDVar
    /\ IF headingsIDVar'
       THEN navigationCheck' = "normal" /\ UNCHANGED navigationVar
       ELSE navigationCheck' = "disabled" /\ navigationVar' = FALSE
    /\ UNCHANGED <<pc, entries, bodyxml, footnotes, showerror, raised, nav, late>>

\* a click on "Create navigation?", which a disabled widget ignores
ClickNavigation ==
    /\ pc = "idle"
    /\ navigationCheck = "normal"
    /\ navigationVar' = ~navigationVar
    /\ UNCHANGED <<pc, entries, bodyxml, footnotes, showerror, raised, nav,
                   headingsIDVar, navigationCheck, late>>

\* variant: the statement after a call runs whatever the call did
Continue_regardless(next, exception) ==
    /\ pc' = next
    /\ raised' = exception

\* the end of a stage: on to the next one, or out with the exception
Continue(next, exception) ==
    /\ pc' = IF exception = "" THEN next ELSE "aborted"
    /\ raised' = exception

\* Convert is pressed: the style map is put together from the entries; the
\* text widget hands its content over with a newline at the end
StyleMapFunc ==
    /\ pc = "idle"
    /\ custom_style_map' =
           style_map_func(<<>>, detect.headings1, detect.headings2, detect.headings3,
                          detect.images, detect.videos, detect.audio, detect.media,
                          detect.blockquotes, detect.tableCaptions, detect.bibliography,
                          detect.ignorePNum, paragraphNumberCheckVar, detect.code,
                          customStyleMapEntry \o <<"\n">>)
    /\ Continue("enclose_body", "")
    /\ UNCHANGED <<entries, gui, bodyxml, footnotes, showerror, nav,
                   showinfo, exportableBodyxml, outputFile, success>>

\* mammoth's markup is enclosed and parsed; etree.fromstring raises
\* XMLSyntaxError (a ParseError) when the page title, which is pasted into
\* the markup of a whole page as it is, holds "<" or "&"
EncloseBody ==
    /\ pc = "enclose_body"
    /\ IF /\ ~bodyCheckVar
          /\ \E i \in 1..Len(pageTitleEntry) : pageTitleEntry[i] \in {"<", "&"}
       THEN UNCHANGED bodyxml /\ Continue("create_footnotes_list", "ParseError")
       ELSE /\ bodyxml' = enclose_body(input, bodyCheckVar, pageTitleEntry)
            /\ Continue("create_footnotes_list", "")
    /\ UNCHANGED <<entries, gui, footnotes, showerror, nav, late>>

CreateFootnotesList ==
    /\ pc = "create_footnotes_list"
    /\ footnotes' = create_footnotes_list(bodyxml, abbreviateTooltipsEntry)
    /\ Continue("abbreviate_footnotes", "")
    /\ UNCHANGED <<entries, gui, bodyxml, showerror, nav, late>>

AbbreviateFootnotes ==
    /\ pc = "abbreviate_footnotes"
    /\ LET r == abbreviate_footnotes(footnotes, abbreviateTooltipsEntry)
       IN  /\ footnotes' = r.footnotes
           /\ showerror' = showerror + (IF r.showerror THEN 1 ELSE 0)
           /\ Continue("add_wbr_footnotes", r.raised)
    /\ UNCHANGED <<entries, gui, bodyxml, nav, late>>

AddWbrFootnotes ==
    /\ pc = "add_wbr_footnotes"
    /\ footnotes' = add_wbr_footnotes(footnotes, abbreviateTooltipsEntry)
    /\ Continue("insert_footnotes", "")
    /\ UNCHANGED <<entries, gui, bodyxml, showerror, nav, late>>

InsertFootnotes ==
    /\ pc = "insert_footnotes"
    /\ LET r == insert_footnotes(tooltipsCheckVar, bodyxml, footnotes)
       IN  bodyxml' = r.bodyxml /\ Continue("adjust_footnotes", r.raised)
    /\ UNCHANGED <<entries, gui, footnotes, showerror, nav, late>>

AdjustFootnotes ==
    /\ pc = "adjust_footnotes"
    /\ LET r == adjust_footnotes(tooltipsCheckVar, bodyxml)
       IN  bodyxml' = r.bodyxml /\ Continue("footnotes_bottom_adjust", r.raised)
    /\ UNCHANGED <<entries, gui, footnotes, showerror, nav, late>>

\* the three separators are created, then handed to footnotes_bottom_adjust
FootnotesBottomAdjust ==
    /\ pc = "footnotes_bottom_adjust"
    /\ LET t1 == Element(bodyxml, Tags.comment, <<>>, Lits.bottom_comment, None)
           t2 == Element(t1, Tags.br, <<>>, None, None)
           t3 == Element(t2, Tags.hr, <<>>, None, None)
       IN  bodyxml' = footnotes_bottom_adjust(t3, Last(t1), Last(t2), Last(t3))
    /\ Continue("add_wbr_text", "")
    /\ UNCHANGED <<entries, gui, footnotes, showerror, nav, late>>

AddWbrText ==
    /\ pc = "add_wbr_text"
    /\ bodyxml' = add_wbr_text(bodyxml)
    /\ Continue("add_Head_IDs", "")
    /\ UNCHANGED <<entries, gui, footnotes, showerror, nav, late>>

AddHeadIDs ==
    /\ pc = "add_Head_IDs"
    /\ bodyxml' = add_Head_IDs(headingsIDVar, bodyxml)
    /\ Continue("remove_toc_and_head", "")
    /\ UNCHANGED <<entries, gui, footnotes, showerror, nav, late>>

\* the handler asks the conversion module for remove_toc_and_head, a name
\* the module does not define; the module's function is remove_word_lnks
RemoveTocAndHead ==
    /\ pc = "remove_toc_and_head"
    /\ IF caller = "convertAndExport"
       THEN UNCHANGED bodyxml /\ Continue("create_navigation", "AttributeError")
       ELSE bodyxml' = remove_word_lnks(bodyxml) /\ Continue("create_navigation", "")
    /\ UNCHANGED <<entries, gui, footnotes, showerror, nav, late>>

\* the headings are collected and the navigation elements created, then
\* create_navigation is called
CreateNavigation ==
    /\ pc = "create_navigation"
    /\ LET findH1 == Headings(bodyxml)
           t1 == Element(bodyxml, Tags.nav, <<>>, None, None)
           t2 == Element(t1, Tags.comment, <<>>, Lits.nav_comment, None)
           t3 == Element(t2, Tags.h1, <<>>, Lits.Navigation, None)
           t4 == Element(t3, Tags.div, <<Attr(Attrs.class, Lits.navGrid)>>, None, None)
       IN  /\ nav' = [navigationElement |-> Last(t1), commentNavigation |-> Last(t2),
                      h1Navigation |-> Last(t3), navGridDiv |-> Last(t4)]
           /\ bodyxml' = create_navigation(t4, navigationVar, navigationTypeVar, findH1,
                                           Last(t1), Last(t2), Last(t3), Last(t4))
    /\ Continue("add_cite", "")
    /\ UNCHANGED <<entries, gui, footnotes, showerror, late>>

\* footnotes is the list that the abbreviation and the break stages changed
\* in place
AddCite ==
    /\ pc = "add_cite"
    /\ LET r == add_cite(bodyxml, footnotes)
       IN  bodyxml' = r.bodyxml /\ Continue("embed_images", r.raised)
    /\ UNCHANGED <<entries, gui, footnotes, showerror, nav, late>>

EmbedImages ==
    /\ pc = "embed_images"
    /\ LET r == embed_images(bodyxml, imagesDimensionsEntry)
       IN  /\ bodyxml' = r.bodyxml
           /\ showinfo' = showinfo + r.showinfo
           /\ Continue("embed_videos", r.raised)
    /\ UNCHANGED <<entries, gui, footnotes, showerror, nav,
                   custom_style_map, exportableBodyxml, outputFile, success>>

EmbedVideos ==
    /\ pc = "embed_videos"
    /\ LET r == embed_videos(bodyxml, videosDimensionsEntry)
       IN  /\ bodyxml' = r.bodyxml
           /\ showinfo' = showinfo + r.showinfo
           /\ Continue("embed_audio", r.raised)
    /\ UNCHANGED <<entries, gui, footnotes, showerror, nav,
                   custom_style_map, exportableBodyxml, outputFile, success>>

EmbedAudio ==
    /\ pc = "embed_audio"
    /\ LET r == embed_audio(bodyxml)
       IN  bodyxml' = r.bodyxml /\ Continue("file_insertion_message", r.raised)
    /\ UNCHANGED <<entries, gui, footnotes, showerror, nav, late>>

FileInsertionMessage ==
    /\ pc = "file_insertion_message"
    /\ bodyxml' = file_insertion_message(bodyxml)
    /\ Continue("move_table_caption", "")
    /\ UNCHANGED <<entries, gui, footnotes, showerror, nav, late>>

MoveTableCaption ==
    /\ pc = "move_table_caption"
    /\ LET r == move_table_caption(bodyxml)
       IN  bodyxml' = r.bodyxml /\ Continue("page_breaks", r.raised)
    /\ UNCHANGED <<entries, gui, footnotes, showerror, nav, late>>

PageBreaks ==
    /\ pc = "page_breaks"
    /\ LET r == page_breaks(pageNumberCheckVar, pageNumberStartCheckEntry,
                            bodyxml, bodyCheckVar)
       IN  /\ bodyxml' = r.bodyxml
           /\ showerror' = showerror + r.showerror
           /\ Continue("paragraph_numbering", r.raised)
    /\ UNCHANGED <<entries, gui, footnotes, nav, late>>

ParagraphNumbering ==
    /\ pc = "paragraph_numbering"
    /\ bodyxml' = paragraph_numbering(paragraphNumberCheckVar, bodyxml)
    /\ Continue("assemble_html", "")
    /\ UNCHANGED <<entries, gui, footnotes, showerror, nav, late>>

\* cssXML and javascriptXML are the elements that the window module parsed
\* from its style sheet and its script when it was loaded; their texts are
\* cut down to one rule and one arrow function
AssembleHtml ==
    /\ pc = "assemble_html"
    /\ LET t1 == Element(bodyxml, Tags.style, <<>>, <<"\n","p"," ","{","}","\n">>, None)
           t2 == Element(t1, Tags.script, <<>>, <<"\n","(",")"," ","=",">"," ","1","\n">>, None)
           r  == assemble_html(navigationVar, bodyCheckVar, cssCheckVar, Last(t1),
                               nav.navGridDiv, t2, Last(t2), javascriptCheckVar)
       IN  /\ bodyxml' = r.bodyxml
           /\ exportableBodyxml' = r.exportableBodyxml
    /\ Continue("escape_unescape", "")
    /\ UNCHANGED <<entries, gui, footnotes, showerror, nav,
                   custom_style_map, showinfo, outputFile, success>>

EscapeUnescape ==
    /\ pc = "escape_unescape"
    /\ exportableBodyxml' = escape_unescape(exportableBodyxml)
    /\ Continue("write_html", "")
    /\ UNCHANGED <<entries, gui, bodyxml, footnotes, showerror, nav,
                   custom_style_map, showinfo, outputFile, success>>

\* write_html, then the "Success" box; open() raises OSError when the output
\* path cannot be written
WriteHtml ==
    /\ pc = "write_html"
    /\ \E writable \in BOOLEAN :
          IF writable
          THEN /\ outputFile' = exportableBodyxml
               /\ success' = TRUE
               /\ Continue("done", "")
          ELSE /\ UNCHANGED <<outputFile, success>>
               /\ Continue("done", "OSError")
    /\ UNCHANGED <<entries, gui, bodyxml, footnotes, showerror, nav,
                   custom_style_map, showinfo, exportableBodyxml>>

Next ==
    \/ ClickHeadingsID
    \/ ClickNavigation
    \/ StyleMapFunc
    \/ EncloseBody
    \/ CreateFootnotesList
    \/ AbbreviateFootnotes
    \/ AddWbrFootnotes
    \/ InsertFootnotes
    \/ AdjustFootnotes
    \/ FootnotesBottomAdjust
    \/ AddWbrText
    \/ AddHeadIDs
    \/ RemoveTocAndHead
    \/ CreateNavigation
    \/ AddCite
    \/ EmbedImages
    \/ EmbedVideos
    \/ EmbedAudio
    \/ FileInsertionMessage
    \/ MoveTableCaption
    \/ PageBreaks
    \/ ParagraphNumbering
    \/ AssembleHtml
    \/ EscapeUnescape
    \/ WriteHtml

(***************************************************************************)
(* The specifications.  They share the actions and differ in the documents *)
(* and settings that the window starts with.                               *)
(***************************************************************************)
Thresholds == {<<>>, <<"0">>, <<"4">>, <<"x">>, <<SuperscriptTwo>>}

PageStarts == {<<>>, <<"0">>, <<"1">>, <<"2">>, <<"3">>, <<"x">>, <<SuperscriptTwo>>}

\* footnotes: paragraphs and block quotes with and without references
Init ==
    InitWith(Docs({"pfn", "pln", "bq", "bqn"}), BOOLEAN, Thresholds,
             {TRUE}, {FALSE}, {<<"1">>}, {"paragraph"}, {TRUE}, {FALSE})
    /\ InitLate({Detect({})}, {<<>>}, {FALSE}, {<<>>}, {<<>>}, {FALSE}, {FALSE}, {<<"t">>})

Spec == Init /\ [][Next]_vars

\* headings and navigation
InitNav ==
    InitWith(Docs({"p", "h1", "h2", "h3"}), {TRUE}, {<<>>},
             BOOLEAN, {FALSE}, {<<"1">>}, {"paragraph", "button"}, BOOLEAN, BOOLEAN)
    /\ InitLate({Detect({})}, {<<>>}, {FALSE}, {<<>>}, {<<>>}, {FALSE}, {FALSE}, {<<"t">>})

SpecNav == InitNav /\ [][Next]_vars

\* page numbers
InitPage ==
    InitWith(Docs({"p", "pb", "h2"}), {TRUE}, {<<>>},
             BOOLEAN, BOOLEAN, PageStarts, {"paragraph"}, {TRUE}, {FALSE})
    /\ InitLate({Detect({})}, {<<>>}, {FALSE}, {<<>>}, {<<>>}, {FALSE}, {FALSE}, {<<"t">>})

SpecPage == InitPage /\ [][Next]_vars

\* paragraph numbers: plain and classed paragraphs, block quotes, tables
InitNumbering ==
    /\ InitWith(Docs({"p", "pmc", "pig", "pbib", "bqn", "tbl"}), {TRUE}, {<<>>},
                BOOLEAN, {FALSE}, {<<"1">>}, {"paragraph"}, {TRUE}, {FALSE})
    /\ InitLate({Detect({})}, {<<>>}, BOOLEAN, {<<>>}, {<<>>}, {FALSE}, {FALSE},
                {<<"t">>})

SpecNumbering == InitNumbering /\ [][Next]_vars

\* the end of the run: whole pages and fragments, with and without style
\* sheet, script and navigation, code elements, and a page title that is
\* not well-formed
InitFinal ==
    /\ InitWith(Docs({"p", "code", "codex"}), {TRUE}, {<<>>},
                BOOLEAN, {FALSE}, {<<"1">>}, {"paragraph"}, {TRUE}, BOOLEAN)
    /\ InitLate({Detect({})}, {<<>>}, {FALSE}, {<<>>}, {<<>>}, BOOLEAN, BOOLEAN,
                {<<"t">>, <<"&">>})

SpecFinal == InitFinal /\ [][Next]_vars

\* the style map: every combination of the style entries in which at most
\* MaxDeviation entries are empty or at most MaxDeviation are filled, with
\* and without paragraph numbering and additional rules, on the empty
\* document, the stage functions being called directly
InitStyle ==
    /\ InitWith(Docs({}), {TRUE}, {<<>>},
                {TRUE}, {FALSE}, {<<"1">>}, {"paragraph"}, {TRUE}, {FALSE})
    /\ InitLate({Detect(E) : E \in {F \in SUBSET DOMAIN Detect({}) :
                                       \/ Cardinality(F) <= MaxDeviation
                                       \/ Cardinality(F) >= 12 - MaxDeviation}},
                {<<>>, <<"r">>}, BOOLEAN, {<<>>}, {<<>>}, {FALSE}, {FALSE}, {<<"t">>})
    /\ caller = "functions"

SpecStyle == InitStyle /\ [][Next]_vars

\* media and tables: image and video placeholders, tables and table
\* captions, with well-formed, empty and ill-formed dimension entries
InitMedia ==
    /\ InitWith(Docs({"p", "img", "vid", "tbl", "cap"}), {TRUE}, {<<>>},
                {TRUE}, {FALSE}, {<<"1">>}, {"paragraph"}, {TRUE}, {FALSE})
    /\ InitLate({Detect({})}, {<<>>}, {FALSE},
                {<<>>, <<"3", ",", "4">>, <<"x">>, <<SuperscriptTwo, ",", "4">>},
                {<<>>, <<"5", ",", "6">>, <<"3">>, <<"3", ",", "4", ",", "5">>},
                {FALSE}, {FALSE}, {<<"t">>})

SpecMedia == InitMedia /\ [][Next]_vars

\* the anchors that Word leaves in headings: alone in the heading, behind
\* text of the heading, and with a hyperlink as the next child; the stage
\* functions being called directly
InitLinks ==
    /\ InitWith(Docs({"p", "h1", "ht", "hk"}), {TRUE}, {<<>>},
                {TRUE}, {FALSE}, {<<"1">>}, {"paragraph"}, BOOLEAN, BOOLEAN)
    /\ InitLate({Detect({})}, {<<>>}, {FALSE}, {<<>>}, {<<>>}, {FALSE}, {FALSE},
                {<<"t">>})
    /\ caller = "functions"

SpecLinks == InitLinks /\ [][Next]_vars

\* footnotes of one and of two paragraphs, without and with two hyperlinks
InitNotes ==
    /\ InitWith(Docs({"pfn", "pf2", "pl2"}), BOOLEAN, {<<>>, <<"4">>, <<"x">>},
                {TRUE}, {FALSE}, {<<"1">>}, {"paragraph"}, {TRUE}, {FALSE})
    /\ InitLate({Detect({})}, {<<>>}, {FALSE}, {<<>>}, {<<>>}, {FALSE}, {FALSE},
                {<<"t">>})

SpecNotes == InitNotes /\ [][Next]_vars

(***************************************************************************)
(* Observations used by the properties.                                    *)
(***************************************************************************)
\* a decimal literal: what the entries call an integer
IsDecimal(s) == Len(s) > 0 /\ \A i \in 1..Len(s) : (\E d \in 1..10 : DecimalChars[d] = s[i])

TooltipContainers(t) == SelectSeq(AllNodes(t), LAMBDA n : IsTooltipPop(t, n))

TooltipTextSpans(t) ==
    SelectSeq(AllNodes(t), LAMBDA n :
        IsTag(t, n, Tags.span) /\ AttrIs(t, n, Attrs.role, Lits.tooltip))

NoFootnoteList(t) ==
    /\ NoteListPath(t, Lits.footnote \o <<"1">>) = <<>>
    /\ NoteListPath(t, Lits.footnote \o <<"0">>) = <<>>

\* for each footnote reference in document order, the text of the tooltip
\* span that shares its container
TooltipTexts(t) ==
    LET m == FootnoteRefs(t)
        spanOf(a) == SelectSeq(Kids(t, getparent(t, a)), LAMBDA n :
                         IsTag(t, n, Tags.span) /\ AttrIs(t, n, Attrs.role, Lits.tooltip))
    IN  [i \in 1..Len(m) |->
            IF spanOf(m[i]) = <<>> THEN None ELSE t.nodes[Head(spanOf(m[i]))].text]

\* the tooltip texts that the footnote stages give a document
TooltipTextsOf(doc) ==
    LET b == enclose_body(doc, bodyCheckVar, pageTitleEntry)
        f == abbreviate_footnotes(create_footnotes_list(b, abbreviateTooltipsEntry),
                                  abbreviateTooltipsEntry)
        r == insert_footnotes(TRUE, b,
                 add_wbr_footnotes(f.footnotes, abbreviateTooltipsEntry))
    IN  IF f.raised # "" THEN <<f.raised>>
        ELSE IF r.raised # "" THEN <<r.raised>>
        ELSE TooltipTexts(r.bodyxml)

\* the same document under the other numbering convention
OtherNumbering(doc) == [doc EXCEPT !.start = 1 - @]

C3_NumberingOffset ==
    (pc \in {"adjust_footnotes", "paragraph_numbering"} /\ tooltipsCheckVar) =>
        /\ TooltipTexts(bodyxml) = TooltipTextsOf(OtherNumbering(input))
        /\ \A i \in 1..Len(FootnoteRefs(bodyxml)) : TooltipTexts(bodyxml)[i] # None

C3_Witness ==
    /\ pc = "paragraph_numbering"
    /\ tooltipsCheckVar
    /\ input.start = 0
    /\ Len(FootnoteRefs(bodyxml)) = 1
    /\ \A i \in 1..Len(FootnoteRefs(bodyxml)) : TooltipTexts(bodyxml)[i] # None

\* C4 (as stated): with a decimal threshold K every fragment longer than K
\* becomes its first K characters followed by the ellipsis marker, K+3
\* characters in all, and every other fragment is unchanged.
C4_AsStated ==
    [][(AbbreviateFootnotes /\ IsDecimal(abbreviateTooltipsEntry)) =>
          LET K == int(abbreviateTooltipsEntry)
          IN  /\ Len(footnotes') = Len(footnotes)
              /\ \A i \in 1..Len(footnotes) :
                    IF Len(footnotes[i]) > K
                    THEN /\ footnotes'[i] = SubSeq(footnotes[i], 1, K) \o Lits.ellipsis
                         /\ Len(footnotes'[i]) = K + 3
                    ELSE footnotes'[i] = footnotes[i]]_vars

\* C4 (amended): with a decimal threshold K every fragment longer than K
\* becomes its first K characters followed by the ellipsis marker "[...]",
\* K+5 characters in all, and every other fragment is unchanged.
C4_Abbreviation ==
    [][(AbbreviateFootnotes /\ IsDecimal(abbreviateTooltipsEntry)) =>
          LET K == int(abbreviateTooltipsEntry)
          IN  /\ Len(footnotes') = Len(footnotes)
              /\ raised' = ""
              /\ \A i \in 1..Len(footnotes) :
                    IF Len(footnotes[i]) > K
                    THEN /\ footnotes'[i] = SubSeq(footnotes[i], 1, K) \o Lits.ellipsis
                         /\ Len(footnotes'[i]) = K + 5
                    ELSE footnotes'[i] = footnotes[i]]_vars

\* a threshold of 4 has cut one fragment and kept another
C4_Witness ==
    /\ pc = "add_wbr_footnotes"
    /\ abbreviateTooltipsEntry = <<"4">>
    /\ \E i \in 1..Len(footnotes) : footnotes[i] = <<"s","2","u","/">> \o Lits.ellipsis
    /\ \E i \in 1..Len(footnotes) : Len(footnotes[i]) = 4

\* C5 (as stated): a threshold that is not empty and not a decimal literal
\* leaves every fragment unchanged, shows exactly one error box and lets the
\* next stage run.
C5_AsStated ==
    [][(AbbreviateFootnotes /\ abbreviateTooltipsEntry # <<>>
            /\ ~IsDecimal(abbreviateTooltipsEntry)) =>
          /\ footnotes' = footnotes
          /\ showerror' = showerror + 1
          /\ raised' = ""
          /\ pc' = "add_wbr_footnotes"]_vars

\* C6: with heading IDs enabled add_Head_IDs gives the k-th heading in
\* document order (h1, h2 and h3 counted together, k from 1) the id
\* "heading" followed by k; with them disabled it changes no attribute of
\* any heading.
C6_HeadingIDs ==
    [][AddHeadIDs =>
          LET h == Headings(bodyxml)
          IN  /\ Headings(bodyxml') = h
              /\ IF headingsIDVar
                 THEN \A k \in 1..Len(h) :
                        GetAttr(bodyxml', h[k], Attrs.id) = Lits.heading \o str(k)
                 ELSE \A k \in 1..Len(h) :
                        bodyxml'.nodes[h[k]].attrib = bodyxml.nodes[h[k]].attrib]_vars

C6_Witness ==
    /\ pc = "remove_toc_and_head"
    /\ headingsIDVar
    /\ Len(Headings(bodyxml)) >= 2
    /\ bodyxml.nodes[Headings(bodyxml)[1]].tag # bodyxml.nodes[Headings(bodyxml)[2]].tag
    /\ GetAttr(bodyxml, Headings(bodyxml)[2], Attrs.id) = Lits.heading \o <<"2">>

\* C7: with heading IDs and navigation both enabled create_navigation builds
\* one navigation item per heading of the body, in document order, and the
\* link of the k-th item targets "#heading" followed by k, the id that
\* add_Head_IDs gave the k-th heading.
C7_NavigationItems ==
    (pc = "add_cite" /\ headingsIDVar /\ navigationVar) =>
        LET h == Headings(bodyxml)
            items == Kids(bodyxml, nav.navigationElement)
        IN  /\ Len(items) = Len(h)
            /\ \A k \in 1..Len(h) :
                  LET links == Kids(bodyxml, items[k])
                  IN  /\ Len(links) = 1
                      /\ IsTag(bodyxml, links[1], Tags.a)
                      /\ GetAttr(bodyxml, links[1], Attrs.href) = Lits.hash_heading \o str(k)
                      /\ GetAttr(bodyxml, links[1], Attrs.href)
                            = <<"#">> \o GetAttr(bodyxml, h[k], Attrs.id)

C7_Witness ==
    /\ pc = "add_cite"
    /\ headingsIDVar
    /\ navigationVar
    /\ Len(Headings(bodyxml)) >= 2
    /\ Len(Kids(bodyxml, nav.navigationElement)) >= 2

\* C8 (as stated): whenever heading IDs are disabled, no navigation item is
\* built and the navigation block stays empty, whatever the navigation flag.
C8_AsStated ==
    (pc \in {"add_cite", "page_breaks", "paragraph_numbering"} /\ ~headingsIDVar) =>
        /\ Kids(bodyxml, nav.navigationElement) = <<>>
        /\ Kids(bodyxml, nav.navGridDiv) = <<>>

\* the number of page-break markers that the converter put into a document
PageBreaksOf(doc) == Cardinality({i \in 1..Len(doc.blocks) : doc.blocks[i] = "pb"})

\* n comes first in the body: every element ahead of it is an ancestor of
\* it that has no text of its own
AtDocumentStart(t, n) ==
    LET body  == IF bodyCheckVar THEN t.root ELSE Kids(t, t.root)[2]
        order == Subtree(t, body)
    IN  /\ n \in Range(order)
        /\ \A j \in 1..Len(order) :
              (\E i \in (j + 1)..Len(order) : order[i] = n) =>
                  /\ n \in Range(Subtree(t, order[j]))
                  /\ t.nodes[order[j]].text = None

\* C9: with page numbers enabled and a decimal first counted page S,
\* page_breaks puts one new marker at the very start of the document, and
\* the k-th marker in document order (the new one is the first) gets the
\* text "{k+1-S}" if k+1-S >= 1 and the empty text otherwise.
C9_PageNumbers ==
    (pc = "paragraph_numbering" /\ pageNumberCheckVar
        /\ IsDecimal(pageNumberStartCheckEntry)) =>
        LET m == PageNumbers(bodyxml)
            S == int(pageNumberStartCheckEntry)
        IN  /\ Len(m) = PageBreaksOf(input) + 1
            /\ AtDocumentStart(bodyxml, m[1])
            /\ \A k \in 1..Len(m) :
                  bodyxml.nodes[m[k]].text =
                      IF k + 1 - S >= 1 THEN <<"{">> \o str(k + 1 - S) \o <<"}">> ELSE <<>>

C9_Witness ==
    /\ pc = "paragraph_numbering"
    /\ pageNumberCheckVar
    /\ pageNumberStartCheckEntry = <<"2">>
    /\ Len(PageNumbers(bodyxml)) >= 3
    /\ bodyxml.nodes[PageNumbers(bodyxml)[1]].text = <<>>
    /\ bodyxml.nodes[PageNumbers(bodyxml)[2]].text = <<"{", "1", "}">>

\* C10 (as stated): with page numbers enabled and a first counted page that
\* is no decimal literal (the empty entry included) page_breaks shows exactly
\* one error box, leaves every marker with empty text and lets the next
\* stage run.
C10_AsStated ==
    [][(PageBreaks /\ pageNumberCheckVar /\ ~IsDecimal(pageNumberStartCheckEntry)) =>
          /\ showerror' = showerror + 1
          /\ raised' = ""
          /\ pc' = "paragraph_numbering"
          /\ \A i \in 1..Len(PageNumbers(bodyxml')) :
                bodyxml'.nodes[PageNumbers(bodyxml')[i]].text = <<>>]_vars

\* the content container
MainGrid(t) ==
    CHOOSE n \in Range(AllNodes(t)) :
        IsTag(t, n, Tags.div) /\ AttrIs(t, n, Attrs.class, Lits.mainGrid)

\* the elements that stand for the blocks of the input, in order: the
\* children of the content container without the comments, the page marker
\* and the list of notes that the converter and the stages add
BlockElements(t) ==
    SelectSeq(Kids(t, MainGrid(t)), LAMBDA n :
        /\ ~IsTag(t, n, Tags.comment)
        /\ ~IsTag(t, n, Tags.ol)
        /\ ~(IsTag(t, n, Tags.sub) /\ AttrIs(t, n, Attrs.class, Lits.pagenumber)))

\* the blocks that paragraph numbering counts: paragraphs without one of
\* the three classes, and block quotes
Counted(kind) == kind \in {"p", "pfn", "pln", "pb", "bq", "bqn"}

CountedUpTo(blocks, i) == Cardinality({j \in 1..i : Counted(blocks[j])})

\* C11: with paragraph numbering enabled, paragraph_numbering puts "[N] " in
\* front of the text of every top-level paragraph that is not a media
\* caption, numbering-exempt or bibliography paragraph and of every block
\* quote, N counting 1, 2, 3, ... in document order; every other element
\* (the skipped paragraphs and the paragraphs inside tables included) is left
\* as it was and uses up no number.
C11_ParagraphNumbers ==
    [][(ParagraphNumbering /\ paragraphNumberCheckVar) =>
          LET b == BlockElements(bodyxml)
          IN  /\ Len(b) = Len(input.blocks)
              /\ Len(bodyxml'.nodes) = Len(bodyxml.nodes)
              /\ \A k \in 1..Len(b) :
                    Counted(input.blocks[k]) =>
                        bodyxml'.nodes[b[k]] =
                            [bodyxml.nodes[b[k]] EXCEPT !.text =
                                <<"[">> \o str(CountedUpTo(input.blocks, k)) \o <<"]", " ">>
                                \o bodyxml.nodes[b[k]].text]
              /\ \A n \in 1..Len(bodyxml.nodes) :
                    (\A k \in 1..Len(b) : Counted(input.blocks[k]) => b[k] # n) =>
                        bodyxml'.nodes[n] = bodyxml.nodes[n]]_vars

\* a numbering-exempt paragraph was skipped and the block quote after it
\* got the first number
C11_Witness ==
    /\ pc = "assemble_html"
    /\ paragraphNumberCheckVar
    /\ input.blocks = <<"pig", "bqn">>
    /\ bodyxml.nodes[BlockElements(bodyxml)[1]].text = <<"i">>
    /\ bodyxml.nodes[BlockElements(bodyxml)[2]].text = <<"[", "1", "]", " ", "r">>

\* the statements of convertAndExport in the order in which it runs them
Stages ==
    << "idle", "enclose_body", "create_footnotes_list", "abbreviate_footnotes",
       "add_wbr_footnotes", "insert_footnotes", "adjust_footnotes",
       "footnotes_bottom_adjust", "add_wbr_text", "add_Head_IDs",
       "remove_toc_and_head", "create_navigation", "add_cite", "embed_images",
       "embed_videos", "embed_audio", "file_insertion_message",
       "move_table_caption", "page_breaks", "paragraph_numbering",
       "assemble_html", "escape_unescape", "write_html", "done" >>

\* C12: when a stage raises (the parse failure of enclose_body included) no
\* later stage runs, nothing is written and no success message is shown; a
\* stage runs only when the one before it has returned normally, so
\* write_html is called only after all of them have.
C12_FailureAborts ==
    [][/\ raised = ""
       /\ raised' # "" => /\ pc' = "aborted"
                          /\ outputFile' = None
                          /\ ~success'
       /\ pc' # pc /\ raised' = "" =>
              \E k \in 1..(Len(Stages) - 1) : pc = Stages[k] /\ pc' = Stages[k + 1]
       /\ (outputFile' # outputFile \/ success' # success) =>
              pc = "write_html" /\ pc' = "done"]_vars

\* the Convert handler stopped at the parse failure of enclose_body
C12_Witness ==
    /\ caller = "convertAndExport"
    /\ raised = "ParseError"
    /\ pc = "aborted"
    /\ bodyxml = EmptyTree
    /\ outputFile = None
    /\ ~success

\* C13 (as stated): for a document of plain paragraphs (no footnotes, no
\* headings, no media placeholders, no captions, no page-break markers) and
\* valid settings, no stage that the Convert handler invokes raises.
C13_AsStated ==
    (/\ caller = "convertAndExport"
     /\ \A i \in 1..Len(input.blocks) : input.blocks[i] = "p"
     /\ pageTitleEntry = <<"t">>) => raised = ""

\* C14: with tooltips enabled, after insert_footnotes and adjust_footnotes
\* the k-th footnote reference anchor has the empty text and one child, a
\* <sup> without children whose text is the number k without brackets; the
\* anchor's parent is a tooltip container that holds exactly the anchor and
\* then its tooltip-text span; no tooltip-text span is inside a <sup>.
C14_SupInsideAnchor ==
    (pc = "footnotes_bottom_adjust" /\ tooltipsCheckVar) =>
        LET m == FootnoteRefs(bodyxml)
        IN  /\ Len(m) = MarkersUpTo(input.blocks, Len(input.blocks))
            /\ \A k \in 1..Len(m) :
                  LET a   == m[k]
                      box == getparent(bodyxml, a)
                  IN  /\ bodyxml.nodes[a].text = <<>>
                      /\ Len(Kids(bodyxml, a)) = 1
                      /\ IsTag(bodyxml, Kids(bodyxml, a)[1], Tags.sup)
                      /\ bodyxml.nodes[Kids(bodyxml, a)[1]].text = str(k)
                      /\ Kids(bodyxml, Kids(bodyxml, a)[1]) = <<>>
                      /\ IsTooltipPop(bodyxml, box)
                      /\ Len(Kids(bodyxml, box)) = 2
                      /\ Kids(bodyxml, box)[1] = a
                      /\ Kids(bodyxml, box)[2] \in Range(TooltipTextSpans(bodyxml))
            /\ \A n \in Range(AllNodes(bodyxml)) :
                  IsTag(bodyxml, n, Tags.sup) =>
                      \A d \in Range(Descendants(bodyxml, n)) :
                          d \notin Range(TooltipTextSpans(bodyxml))

\* two references in a paragraph and a block quote were rebuilt
C14_Witness ==
    /\ pc = "footnotes_bottom_adjust"
    /\ tooltipsCheckVar
    /\ input.blocks = <<"pfn", "bq">>
    /\ Len(FootnoteRefs(bodyxml)) = 2
    /\ bodyxml.nodes[Kids(bodyxml, FootnoteRefs(bodyxml)[2])[1]].text = <<"2">>
    /\ Len(TooltipTextSpans(bodyxml)) = 2

\* the number of places at which sub occurs in s
Count(s, sub) ==
    Cardinality({i \in 1..(Len(s) - Len(sub) + 1) : SubSeq(s, i, i + Len(sub) - 1) = sub})

\* the style entries in the declared order, each with the element that its
\* rule names
StyleRules ==
    << [field |-> "headings1", target |-> Lits.to_h1],
       [field |-> "headings2", target |-> Lits.to_h2],
       [field |-> "headings3", target |-> Lits.to_h3],
       [field |-> "images", target |-> Lits.to_img],
       [field |-> "videos", target |-> Lits.to_iframe],
       [field |-> "audio", target |-> Lits.to_audio],
       [field |-> "media", target |-> Lits.to_media],
       [field |-> "blockquotes", target |-> Lits.to_blockquote],
       [field |-> "tableCaptions", target |-> Lits.to_caption],
       [field |-> "bibliography", target |-> Lits.to_bibliography],
       [field |-> "ignorePNum", target |-> Lits.to_ignorePNum],
       [field |-> "code", target |-> Lits.to_code] >>

\* the rule of the k-th style entry
RuleOf(k) ==
    Lits.rule_open \o detect[StyleRules[k].field] \o Lits.rule_arrow
    \o StyleRules[k].target \o Lits.fresh

\* map holds one rule for every entry of Present and none for any other,
\* in the declared order, and then the additional text
RulesExactly(map, Present) ==
    LET suffix == <<"\n">> \o customStyleMapEntry \o <<"\n">>
        pos(k) == Find(map, RuleOf(k), 1)
    IN  /\ \A k \in 1..Len(StyleRules) :
              /\ Count(map, RuleOf(k)) = IF k \in Present THEN 1 ELSE 0
              /\ k \notin Present =>
                     Count(map, Lits.rule_arrow \o StyleRules[k].target \o Lits.fresh) = 0
        /\ \A k, l \in Present : k < l => pos(k) < pos(l)
        /\ Len(map) >= Len(suffix)
        /\ SubSeq(map, Len(map) - Len(suffix) + 1, Len(map)) = suffix
        /\ \A k \in Present : pos(k) + Len(RuleOf(k)) - 1 <= Len(map) - Len(suffix)
        /\ Count(map, Lits.rule_open) = Cardinality(Present)

\* C15 (as stated): the style map holds exactly one rule for each non-empty
\* style entry and none for an empty one, whatever the other options are, in
\* the declared order and followed by the additional text.
C15_AsStated ==
    [][StyleMapFunc =>
          RulesExactly(custom_style_map',
              {k \in 1..Len(StyleRules) : detect[StyleRules[k].field] # <<>>})]_vars

\* C15 (amended): as stated, except that the rule of the numbering-exempt
\* style is there only when paragraph numbering is enabled as well.
C15_StyleMap ==
    [][StyleMapFunc =>
          RulesExactly(custom_style_map',
              {k \in 1..Len(StyleRules) :
                  /\ detect[StyleRules[k].field] # <<>>
                  /\ StyleRules[k].field = "ignorePNum" => paragraphNumberCheckVar})]_vars

\* numbering is off and only the first heading entry is empty: the map has
\* the rule for code and none for the numbering-exempt style
C15_Witness ==
    /\ pc = "enclose_body"
    /\ detect = Detect({"headings1"})
    /\ ~paragraphNumberCheckVar
    /\ customStyleMapEntry = <<"r">>
    /\ Find(custom_style_map, RuleOf(12), 1) > 0
    /\ Find(custom_style_map, RuleOf(11), 1) = 0
    /\ Find(custom_style_map, RuleOf(2), 1) = 2

\* "W,H", both parts decimal literals
IsDimensions(d) ==
    \E i \in 1..Len(d) :
        /\ d[i] = ","
        /\ IsDecimal(SubSeq(d, 1, i - 1))
        /\ IsDecimal(SubSeq(d, i + 1, Len(d)))

\* what the claim says an embedding stage does with the placeholders nodes
\* for the dimension entry d
EmbeddedAsStated(nodes, d) ==
    /\ raised' = ""
    /\ showinfo' = showinfo + (IF IsDimensions(d) \/ d = <<>> THEN 0 ELSE 1)
    /\ \A k \in 1..Len(nodes) :
          LET n == nodes[k]
              i == CHOOSE i \in 1..Len(d) : d[i] = ","
          IN  /\ GetAttr(bodyxml', n, Attrs.src) = bodyxml.nodes[n].text
              /\ bodyxml'.nodes[n].text = <<>>
              /\ IF IsDimensions(d)
                 THEN /\ GetAttr(bodyxml', n, Attrs.width) = SubSeq(d, 1, i - 1)
                      /\ GetAttr(bodyxml', n, Attrs.height) = SubSeq(d, i + 1, Len(d))
                 ELSE /\ ~HasAttr(bodyxml', n, Attrs.width)
                      /\ ~HasAttr(bodyxml', n, Attrs.height)

\* C16 (as stated): embed_images and embed_videos move the text of every
\* placeholder of their category into its src attribute and clear the text;
\* for an entry "W,H" of two non-negative integers every placeholder gets
\* width W and height H; for the empty entry none gets a dimension and no
\* notice is shown; for every other entry none gets a dimension and exactly
\* one notice is shown.
C16_AsStated ==
    [][/\ EmbedImages =>
             EmbeddedAsStated(
                 SelectSeq(ByTag(bodyxml, Tags.img), LAMBDA n :
                     AttrIs(bodyxml, n, Attrs.class, Lits.insertimage)),
                 imagesDimensionsEntry)
       /\ EmbedVideos =>
             EmbeddedAsStated(
                 SelectSeq(ByTag(bodyxml, Tags.iframe), LAMBDA n :
                     AttrIs(bodyxml, n, Attrs.class, Lits.insertvideo)),
                 videosDimensionsEntry)]_vars

\* C17 (as stated): after add_cite, with tooltips on or off and under both
\* numbering conventions, every block quote that ends with a footnote
\* reference has the fragment of that footnote as its cite attribute, and a
\* block quote without a reference has no cite attribute.
C17_AsStated ==
    pc = "embed_images" =>
        LET q  == ByTag(bodyxml, Tags.blockquote)
            at == SelectSeq([j \in 1..Len(input.blocks) |-> j],
                            LAMBDA j : input.blocks[j] \in {"bq", "bqn"})
        IN  /\ Len(q) = Len(at)
            /\ \A i \in 1..Len(q) :
                  IF input.blocks[at[i]] = "bq"
                  THEN GetAttr(bodyxml, q[i], Attrs.cite) =
                           footnotes[MarkersUpTo(input.blocks, at[i])]
                  ELSE ~HasAttr(bodyxml, q[i], Attrs.cite)

\* C18 (as stated): move_table_caption never raises; a caption whose
\* preceding sibling was a table becomes the first child of that table, and
\* a caption with no preceding sibling or with another one stays where it
\* was.
C18_AsStated ==
    [][MoveTableCaption =>
          /\ raised' = ""
          /\ \A c \in Range(ByTag(bodyxml, Tags.caption)) :
                LET prev == getprevious(bodyxml, c)
                IN  IF prev # 0 /\ IsTag(bodyxml, prev, Tags.table)
                    THEN /\ getparent(bodyxml', c) = prev
                         /\ Kids(bodyxml', prev)[1] = c
                    ELSE /\ getparent(bodyxml', c) = getparent(bodyxml, c)
                         /\ getprevious(bodyxml', c) = prev]_vars

\* the first n elements of s, all of s if it is shorter
Prefix(s, n) == SubSeq(s, 1, IF Len(s) < n THEN Len(s) ELSE n)

\* C19: assemble_html inserts the navigation block, then the script, then
\* the style sheet, each at position zero of its target.  For a whole page
\* the head then starts with the enabled ones of style and script, in this
\* order, and the navigation block is the first child of the grid container
\* inside body; for a fragment all three are in front of the grid
\* container's children, style, script, navigation block.  The text of a
\* whole page starts with the document-type declaration, that of a fragment
\* with the body tag.
C19_Assembly ==
    [][AssembleHtml =>
          LET old   == bodyxml
              new   == bodyxml'
              front == (IF cssCheckVar THEN <<Tags.style>> ELSE <<>>)
                       \o (IF javascriptCheckVar THEN <<Tags.script>> ELSE <<>>)
              block == IF navigationVar THEN <<nav.navGridDiv>> ELSE <<>>
              tags(nodes) == [i \in 1..Len(nodes) |-> new.nodes[nodes[i]].tag]
          IN  IF bodyCheckVar
              THEN LET grid == Kids(old, old.root)[1]
                   IN  /\ tags(Prefix(Kids(new, grid), Len(front))) = front
                       /\ SubSeq(Kids(new, grid), Len(front) + 1, Len(Kids(new, grid)))
                             = block \o Kids(old, grid)
                       /\ Prefix(exportableBodyxml', 6) = <<"<">> \o Tags.body \o <<">">>
              ELSE LET head == Kids(old, old.root)[1]
                       grid == Kids(old, Kids(old, old.root)[2])[1]
                   IN  /\ tags(Prefix(Kids(new, head), Len(front))) = front
                       /\ SubSeq(Kids(new, head), Len(front) + 1, Len(Kids(new, head)))
                             = Kids(old, head)
                       /\ Kids(new, grid) = block \o Kids(old, grid)
                       /\ Prefix(exportableBodyxml', Len(Lits.doctype) + 6)
                             = Lits.doctype \o <<"<">> \o Tags.html \o <<">">>]_vars

\* a whole page with navigation, script and style sheet was assembled
C19_Witness ==
    /\ pc = "escape_unescape"
    /\ ~bodyCheckVar /\ navigationVar /\ cssCheckVar /\ javascriptCheckVar
    /\ input.blocks # <<>>
    /\ LET head == Kids(bodyxml, bodyxml.root)[1]
           grid == Kids(bodyxml, Kids(bodyxml, bodyxml.root)[2])[1]
       IN  /\ IsTag(bodyxml, Kids(bodyxml, head)[1], Tags.style)
           /\ IsTag(bodyxml, Kids(bodyxml, head)[2], Tags.script)
           /\ IsTag(bodyxml, Kids(bodyxml, head)[3], Tags.title)
           /\ Kids(bodyxml, grid)[1] = nav.navGridDiv
    /\ Prefix(exportableBodyxml, Len(Lits.doctype)) = Lits.doctype

\* C20 (as stated): after escape_unescape the text holds every code element
\* with its content entity-escaped, and no entity anywhere else.
C20_AsStated ==
    [][EscapeUnescape =>
          LET out   == exportableBodyxml'
              codes == ByTag(bodyxml, Tags.code)
              shown(n) == escape(bodyxml.nodes[n].text)
          IN  /\ \A k \in 1..Len(codes) :
                    Count(out, Lits.open_code \o shown(codes[k]) \o Lits.close_code) >= 1
              /\ Count(out, <<"&">>) =
                    Cardinality({x \in Range(codes) \X (1..Len(out)) :
                        /\ x[2] <= Len(shown(x[1]))
                        /\ shown(x[1])[x[2]] = "&"})]_vars

\* C21: the loop of adjust_footnotes (tooltips enabled) comes to an end:
\* one pass takes every <sup> that holds a tooltip container out of the
\* tree, so that there are fewer <sup> elements than before and none of the
\* matched ones can be matched again, and after the stage no <sup> has a
\* tooltip container as a child.
C21_UnwrapTerminates ==
    [][(AdjustFootnotes /\ tooltipsCheckVar) =>
          LET matched == TooltipSups(bodyxml)
              pass    == UnwrapPass(bodyxml, matched)
              isMatched(n) == \E i \in 1..Len(matched) : matched[i] = n
          IN  /\ SelectSeq(AllNodes(pass), isMatched) = <<>>
              /\ matched # <<>> =>
                     Len(ByTag(pass, Tags.sup)) < Len(ByTag(bodyxml, Tags.sup))
              /\ TooltipSups(pass) = <<>>
              /\ TooltipSups(bodyxml') = <<>>
              /\ SelectSeq(AllNodes(bodyxml'), isMatched) = <<>>]_vars

\* two wrappers were matched and removed
C21_Witness ==
    /\ pc = "footnotes_bottom_adjust"
    /\ tooltipsCheckVar
    /\ Len(TooltipContainers(bodyxml)) = 2
    /\ TooltipSups(bodyxml) = <<>>
    /\ \A n \in Range(TooltipContainers(bodyxml)) :
          ~IsTag(bodyxml, getparent(bodyxml, n), Tags.sup)

\* the blocks of the document that carry a footnote reference
Markers(doc) == SelectSeq(doc.blocks, LAMBDA b : b \in MarkerBlocks)

\* what only the text of the k-th footnote of that kind holds
NoteKey(kind, k) == (IF kind \in {"pln", "pl2"} THEN <<"s">> ELSE <<"n">>) \o str(k)

\* C22 (as stated): create_footnotes_list returns one fragment per item of
\* the footnote list, in list order, whatever the item holds: there are as
\* many fragments as list items and as footnote references in the text, and
\* the N-th fragment is the text of the N-th footnote.
C22_AsStated ==
    [][CreateFootnotesList =>
          LET items == ByTag(bodyxml, Tags.li)
              refs  == FootnoteRefs(bodyxml)
              kinds == Markers(input)
          IN  /\ Len(footnotes') = Len(items)
              /\ Len(items) = Len(refs)
              /\ \A N \in 1..Len(kinds) :
                    /\ N <= Len(footnotes')
                    /\ Contains(footnotes'[N], NoteKey(kinds[N], N))]_vars
\* an anchor that Word left behind: its id holds "_Toc", "_heading" or "_Hlk"
IsWordAnchor(t, n) ==
    /\ IsTag(t, n, Tags.a)
    /\ \/ AttrContains(t, n, Attrs.id, Lits.Toc)
       \/ AttrContains(t, n, Attrs.id, Lits.underscore_heading)
       \/ AttrContains(t, n, Attrs.id, Lits.Hlk)

\* a text or tail as a string
TextOf(s) == IF s = None THEN <<>> ELSE s

\* C23 (as stated): remove_word_lnks removes every anchor whose id holds
\* "_Toc", "_heading" or "_Hlk"; the tail of a removed anchor stays in the
\* parent at the place of the anchor and the parent's text in front of it is
\* kept, so that a parent whose children are all such anchors ends with its
\* former text followed by their tails.
C23_AsStated ==
    [][(RemoveTocAndHead /\ caller = "functions") =>
          LET old == AllNodes(bodyxml)
              new == AllNodes(bodyxml')
          IN  /\ \A i \in 1..Len(new) : ~IsWordAnchor(bodyxml', new[i])
              /\ \A i \in 1..Len(old) :
                    LET P == old[i]
                        k == Kids(bodyxml, P)
                    IN  (k # <<>> /\ \A j \in 1..Len(k) : IsWordAnchor(bodyxml, k[j])) =>
                            TextOf(bodyxml'.nodes[P].text) =
                                TextOf(bodyxml.nodes[P].text)
                                \o Concat([j \in 1..Len(k) |->
                                              TextOf(bodyxml.nodes[k[j]].tail)])]_vars

\* C24 (as stated): remove_word_lnks removes nothing but the matched
\* anchors: every element keeps its other children, in their order.
C24_AsStated ==
    [][(RemoveTocAndHead /\ caller = "functions") =>
          LET old == AllNodes(bodyxml)
          IN  \A i \in 1..Len(old) :
                  ~IsWordAnchor(bodyxml, old[i]) =>
                      Kids(bodyxml', old[i]) =
                          SelectSeq(Kids(bodyxml, old[i]),
                                    LAMBDA c : ~IsWordAnchor(bodyxml, c))]_vars
\* C25: with tooltips disabled insert_footnotes leaves the tree as it is,
\* and adjust_footnotes changes nothing but the text of the footnote
\* reference anchors, which loses its brackets ("[N]" becomes "N"): no
\* element is created, moved or removed, so there is no tooltip span and
\* every <sup> still holds its anchor.
C25_TooltipsOff ==
    [][~tooltipsCheckVar =>
          /\ InsertFootnotes => bodyxml' = bodyxml
          /\ AdjustFootnotes =>
                /\ bodyxml'.root = bodyxml.root
                /\ Len(bodyxml'.nodes) = Len(bodyxml.nodes)
                /\ \A n \in 1..Len(bodyxml.nodes) :
                      IF IsFootnoteRef(bodyxml, n)
                      THEN /\ bodyxml.nodes[n].text =
                                 <<"[">> \o bodyxml'.nodes[n].text \o <<"]">>
                           /\ ~Contains(bodyxml'.nodes[n].text, <<"[">>)
                           /\ ~Contains(bodyxml'.nodes[n].text, <<"]">>)
                           /\ bodyxml'.nodes[n] =
                                 [bodyxml.nodes[n] EXCEPT !.text = bodyxml'.nodes[n].text]
                      ELSE bodyxml'.nodes[n] = bodyxml.nodes[n]]_vars

\* two references went through both stages with tooltips disabled
C25_Witness ==
    /\ pc = "footnotes_bottom_adjust"
    /\ ~tooltipsCheckVar
    /\ raised = ""
    /\ LET refs == FootnoteRefs(bodyxml)
       IN  /\ Len(refs) = 2
           /\ \A k \in 1..2 :
                 /\ bodyxml.nodes[refs[k]].text = str(k)
                 /\ IsTag(bodyxml, getparent(bodyxml, refs[k]), Tags.sup)
    /\ TooltipContainers(bodyxml) = <<>>

\* C26 (as stated): footnotes_bottom_adjust puts the separator (the comment,
\* the line break and the horizontal rule) right in front of the footnote
\* list whenever the tree holds one, whichever number its first item is
\* keyed with, and inserts nothing when there is no list.
C26_AsStated ==
    [][FootnotesBottomAdjust =>
          LET lists == ByTag(bodyxml, Tags.ol)
              seps  == {Tags.comment, Tags.br, Tags.hr}
          IN  IF lists = <<>>
              THEN \A n \in Range(AllNodes(bodyxml')) : bodyxml'.nodes[n].tag \notin seps
              ELSE \A l \in Range(lists) :
                      LET k == Kids(bodyxml', getparent(bodyxml', l))
                          i == CHOOSE j \in 1..Len(k) : k[j] = l
                      IN  /\ i > 3
                          /\ {bodyxml'.nodes[k[j]].tag : j \in (i - 3)..(i - 1)} = seps]_vars

\* the fragment with a <wbr> behind every slash of the text of each of its
\* hyperlinks, and nowhere else
RECURSIVE WbrInLinks(_)
WbrInLinks(s) ==
    LET m == LinkMatch(s, 1)
    IN  IF m[1] = 0 THEN s
        ELSE SubSeq(s, 1, m[2])
             \o ReplaceAll(SubSeq(s, m[2] + 1, m[3] - 1), <<"/">>, Lits.slash_wbr)
             \o Lits.close_a
             \o WbrInLinks(SubSeq(s, m[3] + 4, Len(s)))

\* C27 (as stated): add_wbr_footnotes, given a threshold, puts a <wbr>
\* right behind every slash of every fragment; given none, it puts one
\* behind every slash of the text of each hyperlink and nowhere else, so
\* that each hyperlink keeps its own text and attributes and the text
\* outside the hyperlinks is unchanged, however many hyperlinks there are.
C27_AsStated ==
    [][AddWbrFootnotes =>
          /\ Len(footnotes') = Len(footnotes)
          /\ \A i \in 1..Len(footnotes) :
                IF abbreviateTooltipsEntry # <<>>
                THEN /\ ReplaceAll(footnotes'[i], Lits.slash_wbr, <<"/">>) = footnotes[i]
                     /\ Count(footnotes'[i], Lits.slash_wbr) = Count(footnotes[i], <<"/">>)
                ELSE footnotes'[i] = WbrInLinks(footnotes[i])]_vars

\* C28 (as stated): a run of convertAndExport (well-formed page title) goes
\* through the stages in the one fixed order, each once: every step of the
\* run leads from a stage to the stage that follows it in Stages, from the
\* extraction of the footnotes down to write_html (which may find that the
\* file cannot be written).
C28_AsStated ==
    [][(/\ caller = "convertAndExport"
        /\ pageTitleEntry = <<"t">>
        /\ pc' # pc
        /\ raised' # "OSError") =>
          \E k \in 1..(Len(Stages) - 1) : pc = Stages[k] /\ pc' = Stages[k + 1]]_vars

\* C29 (as stated): with tooltips enabled insert_footnotes and
\* adjust_footnotes lose and reorder no text of the body: insert_footnotes
\* leaves the <sup> of each reference where it is, with its tail, and after
\* adjust_footnotes the tooltip container stands in the parent of the former
\* <sup> with that tail right behind it, the parent's text being unchanged.
C29_AsStated ==
    [][tooltipsCheckVar =>
          /\ InsertFootnotes =>
                \A S \in Range(FootnoteSups(bodyxml)) :
                    LET P == getparent(bodyxml, S)
                    IN  /\ getparent(bodyxml', S) = P
                        /\ bodyxml'.nodes[S].tail = bodyxml.nodes[S].tail
                        /\ bodyxml'.nodes[P].text = bodyxml.nodes[P].text
          /\ AdjustFootnotes =>
                \A S \in Range(TooltipSups(bodyxml)) :
                    LET P   == getparent(bodyxml, S)
                        box == Head(Kids(bodyxml, S))
                    IN  /\ getparent(bodyxml', box) = P
                        /\ bodyxml'.nodes[box].tail = bodyxml.nodes[S].tail
                        /\ bodyxml'.nodes[P].text = bodyxml.nodes[P].text]_vars

\* C30 (as stated): with a threshold that is not empty and not a decimal
\* literal, the fragments that leave add_wbr_footnotes (the tooltip texts)
\* are the ones that the three footnote stages produce from the same tree
\* with an empty threshold: markup kept, <wbr> in hyperlink text only.
C30_AsStated ==
    [][(AddWbrFootnotes /\ abbreviateTooltipsEntry # <<>>
            /\ ~IsDecimal(abbreviateTooltipsEntry)) =>
          footnotes' =
              add_wbr_footnotes(
                  abbreviate_footnotes(create_footnotes_list(bodyxml, <<>>), <<>>).footnotes,
                  <<>>)]_vars
=============================================================================
